---- MODULE Spec2Model ----
(***************************************************************************)
(* JUnit XML ingestion (junit-parser): input guard, suite tree builder,    *)
(* totals aggregation, multi-root recovery and file/directory ingestion;   *)
(* the metrics generator, the MetricsSubmitter and the action's run().     *)
(*                                                                         *)
(* Times are integers counting units of 1e-7 second, one decimal finer     *)
(* than the six decimals roundTime keeps, so that rounding is visible.     *)
(* The generic XML parser is a collaborator: a document carries its text   *)
(* (as far as the input guard reads it) and the generic tree the parser    *)
(* returns for that text.                                                  *)
(***************************************************************************)
EXTENDS Integers, Sequences, FiniteSets, TLC

\* the call of an exported operation of the parser and what it gave
VARIABLES call, result, parserCalls, depthsEntered, filesRead
\* the MetricsSubmitter: its three maps from metric name to instrument, the instruments
\* the meter was asked to create, the calls of record and add made on them, and the
\* data points submitMetrics was given so far
VARIABLES histograms, counters, upDownCounters, created, recorded, submitted
\* the action's run(): where it stands, its configuration, what ingestDir returned to
\* it, and the calls it made to the toolkit, the submitter and the meter provider
VARIABLES pc, config, ingestResult, effects

parserVars == <<call, result, parserCalls, depthsEntered, filesRead>>
submitterVars == <<histograms, counters, upDownCounters, created, recorded, submitted>>
runVars == <<pc, config, ingestResult, effects>>
vars == <<parserVars, submitterVars, runVars>>

(***************************************************************************)
(* Program constants                                                       *)
(***************************************************************************)
MAX_XML_SIZE == 10 * 1024 * 1024
MAX_PROPERTY_NAME_LENGTH == 100
MAX_STRING_LENGTH == 50000
MAX_NESTING_DEPTH == 20
MAX_PROPERTIES_COUNT == 1000

(***************************************************************************)
(* Values of the generic tree                                              *)
(***************************************************************************)
\* an attribute or child that is not there (JavaScript undefined)
Absent == [kind |-> "absent"]
\* an attribute whose text is empty, or an element with no attribute, child or text
EmptyText == [kind |-> "text", s |-> "", len |-> 0]
\* a non-numeric attribute text such as "invalid"
Invalid == [kind |-> "invalid"]
\* a numeric attribute text, v in units of 1e-7 second
Num(v) == [kind |-> "num", v |-> v]
\* a string of len characters
Str(s, n) == [kind |-> "text", s |-> s, len |-> n]
\* repeated children: the parser gives the child itself when there is one, an array for several
Many(xs) == [kind |-> "many", v |-> xs]
FromList(xs) == IF Len(xs) = 0 THEN Absent ELSE IF Len(xs) = 1 THEN xs[1] ELSE Many(xs)

\* JavaScript truthiness of a generic value
Truthy(value) ==
    CASE value.kind = "absent" -> FALSE
      [] value.kind = "text" -> value.len > 0
      [] OTHER -> TRUE

\* property access on a generic value: undefined unless the value is an element with that
\* field; the fields carry the names of the attributes and children without the parser's
\* "@_" prefix, "text" is "#text", systemOut and systemErr are system-out and system-err
Get(node, field) ==
    IF node.kind = "element" /\ field \in DOMAIN node THEN node[field] ELSE Absent

(***************************************************************************)
(* Result values                                                           *)
(***************************************************************************)
Ok(d) == [success |-> TRUE, data |-> d]
Err(e) == [success |-> FALSE, error |-> e]
\* an exception leaving the function
Throw(e) == [threw |-> e]
IsThrow(r) == "threw" \in DOMAIN r
IsOk(r) == ~IsThrow(r) /\ r.success
IsErr(r) == ~IsThrow(r) /\ ~r.success

TypeErrorKind == <<"XML content must be a string">>
SizeExceeded == <<"XML content exceeds maximum size of 10485760 bytes">>
MaliciousContent == <<"XML contains potentially malicious DOCTYPE or ENTITY declarations">>
MaxDepthExceeded == <<"Maximum nesting depth of 20 exceeded">>
TooManyProperties == <<"Maximum properties count of 1000 exceeded">>
MissingWrapper == <<"XML must have a testsuites wrapper element with time attribute">>
MissingTime == <<"testsuites element is missing required time attribute">>

(***************************************************************************)
(* Input guard                                                             *)
(***************************************************************************)
\* the text of a document is a sequence of segments [s, len]
RECURSIVE TextLength(_)
TextLength(segs) ==
    IF segs = <<>> THEN 0 ELSE Head(segs).len + TextLength(Tail(segs))

\* case folding of the words the guard's pattern reads (the /i flag)
ToUpper(s) ==
    CASE s \in {"DOCTYPE", "doctype", "DocType"} -> "DOCTYPE"
      [] s \in {"ENTITY", "entity", "Entity"} -> "ENTITY"
      [] OTHER -> s

\* /<!(?:DOCTYPE|ENTITY)/i.test(xmlContent)
MarkerTest(segs) ==
    \E i \in 1..(Len(segs) - 1) :
        /\ segs[i].s = "<!"
        /\ ToUpper(segs[i + 1].s) \in {"DOCTYPE", "ENTITY"}

\* validateInput with the size limit off by one: a text of exactly the limit is refused
validateInput_SizeInclusive(xmlContent) ==
    IF ~xmlContent.isString
    THEN Err(TypeErrorKind)
    ELSE IF TextLength(xmlContent.text) >= MAX_XML_SIZE
    THEN Err(SizeExceeded)
    ELSE IF MarkerTest(xmlContent.text)
    THEN Err(MaliciousContent)
    ELSE Ok(xmlContent)

\* validateInput with the /i flag forgotten: only the upper-case markers are seen
validateInput_CaseSensitive(xmlContent) ==
    IF ~xmlContent.isString
    THEN Err(TypeErrorKind)
    ELSE IF TextLength(xmlContent.text) > MAX_XML_SIZE
    THEN Err(SizeExceeded)
    ELSE IF \E i \in 1..(Len(xmlContent.text) - 1) :
                /\ xmlContent.text[i].s = "<!"
                /\ xmlContent.text[i + 1].s \in {"DOCTYPE", "ENTITY"}
    THEN Err(MaliciousContent)
    ELSE Ok(xmlContent)

validateInput(xmlContent) ==
    IF ~xmlContent.isString
    THEN Err(TypeErrorKind)
    ELSE IF TextLength(xmlContent.text) > MAX_XML_SIZE
    THEN Err(SizeExceeded)
    ELSE IF MarkerTest(xmlContent.text)
    THEN Err(MaliciousContent)
    ELSE Ok(xmlContent)

(***************************************************************************)
(* Sanitizer                                                               *)
(***************************************************************************)
\* of undefined or of a trimmed text: a text and its length, cut at MAX_STRING_LENGTH with
\* the 14 characters of "...[truncated]" appended
sanitizeString(value) ==
    IF value.kind # "text"
    THEN [s |-> "", len |-> 0]
    ELSE IF value.len > MAX_STRING_LENGTH
    THEN [s |-> value.s, len |-> MAX_STRING_LENGTH + 14]
    ELSE [s |-> value.s, len |-> value.len]

\* Number(time.toFixed(6)), time >= 0
roundTime(time) == ((time + 5) \div 10) * 10

\* parsePositiveFloat letting a negative number through
parsePositiveFloat_Signed(value) ==
    LET num == IF value.kind = "num" THEN value.v ELSE 0
        isNaN == value.kind = "invalid" \/ (value.kind = "text" /\ value.len > 0)
    IN IF isNaN THEN 0 ELSE ((num + 5) \div 10) * 10

parsePositiveFloat(value) ==
    LET num == IF value.kind = "num" THEN value.v ELSE 0
        isNaN == value.kind = "invalid" \/ (value.kind = "text" /\ value.len > 0)
        res == IF isNaN \/ num < 0 THEN 0 ELSE num
    IN roundTime(res)

\* validatePropertyName with "prototype" left out of the refused names
validatePropertyName_NoPrototype(name) ==
    /\ name.kind = "text"
    /\ name.len > 0
    /\ name.len <= MAX_PROPERTY_NAME_LENGTH
    /\ name.s \notin {"__proto__", "constructor"}

validatePropertyName(name) ==
    /\ name.kind = "text"
    /\ name.len > 0
    /\ name.len <= MAX_PROPERTY_NAME_LENGTH
    /\ name.s \notin {"__proto__", "constructor", "prototype"}

\* validateNestingDepth refusing the limit itself
validateNestingDepth_Inclusive(depth) ==
    IF depth >= MAX_NESTING_DEPTH THEN Err(MaxDepthExceeded) ELSE Ok(Absent)

validateNestingDepth(depth) ==
    IF depth > MAX_NESTING_DEPTH THEN Err(MaxDepthExceeded) ELSE Ok(Absent)

(***************************************************************************)
(* Suite tree builder                                                      *)
(* An operator that calls others takes their results as parameters, in the *)
(* order the code makes the calls; a result is only read where the code    *)
(* has made the call, so a failure returns before the later calls matter.  *)
(***************************************************************************)
\* x ? (Array.isArray(x) ? x : [x]) : []
ToList(children) ==
    IF ~Truthy(children) THEN <<>>
    ELSE IF children.kind = "many" THEN children.v
    ELSE <<children>>

RECURSIVE SumInts(_)
SumInts(xs) == IF xs = <<>> THEN 0 ELSE Head(xs) + SumInts(Tail(xs))

\* the value of one property element
PropertyValue(prop) ==
    IF Get(prop, "value").kind # "absent" THEN sanitizeString(Get(prop, "value"))
    ELSE IF Get(prop, "text").kind # "absent" THEN sanitizeString(Get(prop, "text"))
    ELSE IF prop.kind = "text" THEN sanitizeString(prop)
    ELSE sanitizeString(Absent)

\* one iteration of the for loop of parseProperties; st.failed once it has returned the failure
PropertiesStep(st, prop) ==
    IF st.failed THEN st
    ELSE IF st.propertyCount >= MAX_PROPERTIES_COUNT
    THEN [st EXCEPT !.failed = TRUE]
    ELSE IF ~validatePropertyName(Get(prop, "name"))
    THEN st
    ELSE [failed |-> FALSE,
          propertyCount |-> st.propertyCount + 1,
          properties |->
              [k \in (DOMAIN st.properties) \cup {sanitizeString(Get(prop, "name"))} |->
                  IF k = sanitizeString(Get(prop, "name"))
                  THEN PropertyValue(prop) ELSE st.properties[k]]]

\* the iterations for props[lo..hi] in order, from the state st: the first half of them,
\* then (unless they returned the failure) the second half from the state they left
RECURSIVE PropertiesLoop(_, _, _, _)
PropertiesRest(props, lo, hi, left) ==
    IF left.failed THEN left ELSE PropertiesLoop(props, lo, hi, left)

PropertiesLoop(props, lo, hi, st) ==
    IF lo > hi THEN st
    ELSE IF lo = hi THEN PropertiesStep(st, props[lo])
    ELSE PropertiesRest(props, ((lo + hi) \div 2) + 1, hi,
             PropertiesLoop(props, lo, (lo + hi) \div 2, st))

\* what parseProperties returns once its loop has ended in st
PropertiesResult(st) ==
    IF st.failed
    THEN Err(TooManyProperties)
    ELSE Ok(IF DOMAIN st.properties # {}
            THEN [kind |-> "map", entries |-> st.properties]
            ELSE Absent)

\* Array.isArray(property) ? property : [property]
PropertyList(property) == IF property.kind = "many" THEN property.v ELSE <<property>>

parseProperties(propertiesElement) ==
    IF ~Truthy(propertiesElement) \/ ~Truthy(Get(propertiesElement, "property"))
    THEN Ok(Absent)
    ELSE PropertiesResult(
             PropertiesLoop(PropertyList(Get(propertiesElement, "property")), 1,
                 Len(PropertyList(Get(propertiesElement, "property"))),
                 [failed |-> FALSE, propertyCount |-> 0, properties |-> <<>>]))

\* the result kind of a test case, by the marker children present
TestResultOf(testcase) ==
    IF Truthy(Get(testcase, "failure"))
    THEN [status |-> "failed",
          message |-> sanitizeString(Get(Get(testcase, "failure"), "message")),
          type |-> sanitizeString(Get(Get(testcase, "failure"), "type")),
          body |-> sanitizeString(Get(Get(testcase, "failure"), "text"))]
    ELSE IF Truthy(Get(testcase, "error"))
    THEN [status |-> "error",
          message |-> sanitizeString(Get(Get(testcase, "error"), "message")),
          type |-> sanitizeString(Get(Get(testcase, "error"), "type")),
          body |-> sanitizeString(Get(Get(testcase, "error"), "text"))]
    ELSE IF Get(testcase, "skipped").kind # "absent"
    THEN [status |-> "skipped",
          message |-> IF Truthy(Get(Get(testcase, "skipped"), "message"))
                      THEN sanitizeString(Get(Get(testcase, "skipped"), "message"))
                      ELSE Absent]
    ELSE [status |-> "passed"]

\* parseTest once parseProperties has returned propertiesResult
TestData(testcase, propertiesResult) ==
    IF ~propertiesResult.success
    THEN propertiesResult
    ELSE Ok([name |-> sanitizeString(Get(testcase, "name")),
             classname |-> sanitizeString(Get(testcase, "classname")),
             time |-> parsePositiveFloat(Get(testcase, "time")),
             result |-> TestResultOf(testcase),
             properties |-> propertiesResult.data,
             systemOut |-> IF Truthy(Get(testcase, "systemOut"))
                           THEN sanitizeString(Get(testcase, "systemOut")) ELSE Absent,
             systemErr |-> IF Truthy(Get(testcase, "systemErr"))
                           THEN sanitizeString(Get(testcase, "systemErr")) ELSE Absent])

parseTest(testcase) == TestData(testcase, parseProperties(Get(testcase, "properties")))

\* one iteration of the loop over the test cases and the iterations after it:
\* the first failure is returned, else the parsed tests in order
TestsStep(testResult, rest) ==
    IF ~testResult.success THEN testResult
    ELSE IF ~rest.success THEN rest
    ELSE Ok(<<testResult.data>> \o rest.data)

\* the loop of parseSuite over its test cases, from testcases[i] on
RECURSIVE ParseTestsFrom(_, _)
ParseTestsFrom(testcases, i) ==
    IF i > Len(testcases) THEN Ok(<<>>)
    ELSE TestsStep(parseTest(testcases[i]), ParseTestsFrom(testcases, i + 1))

CountStatus(tests, status) ==
    Cardinality({i \in DOMAIN tests : tests[i].result.status = status})

\* the sum of one totals field over suites
TotalOf(suites, field) == SumInts([i \in DOMAIN suites |-> suites[i].totals[field]])

\* the time the loops of calculateTotals add up
CumulativeTime(tests, nestedSuites) ==
    SumInts([i \in DOMAIN tests |-> tests[i].time]) + TotalOf(nestedSuites, "cumulativeTime")

\* calculateTotals counting only the suite's own tests in tests
calculateTotals_OwnTests(tests, nestedSuites, originalTime) ==
    [tests |-> Len(tests),
     passed |-> CountStatus(tests, "passed") + TotalOf(nestedSuites, "passed"),
     skipped |-> CountStatus(tests, "skipped") + TotalOf(nestedSuites, "skipped"),
     failed |-> CountStatus(tests, "failed") + TotalOf(nestedSuites, "failed"),
     error |-> CountStatus(tests, "error") + TotalOf(nestedSuites, "error"),
     time |-> IF originalTime # 0 THEN originalTime
              ELSE roundTime(CumulativeTime(tests, nestedSuites)),
     cumulativeTime |-> roundTime(CumulativeTime(tests, nestedSuites))]

\* calculateTotals giving the declared time for cumulativeTime too
calculateTotals_CumulativeFromTime(tests, nestedSuites, originalTime) ==
    [tests |-> Len(tests) + TotalOf(nestedSuites, "tests"),
     passed |-> CountStatus(tests, "passed") + TotalOf(nestedSuites, "passed"),
     skipped |-> CountStatus(tests, "skipped") + TotalOf(nestedSuites, "skipped"),
     failed |-> CountStatus(tests, "failed") + TotalOf(nestedSuites, "failed"),
     error |-> CountStatus(tests, "error") + TotalOf(nestedSuites, "error"),
     time |-> IF originalTime # 0 THEN originalTime
              ELSE roundTime(CumulativeTime(tests, nestedSuites)),
     cumulativeTime |-> IF originalTime # 0 THEN originalTime
                        ELSE roundTime(CumulativeTime(tests, nestedSuites))]

\* nestedSuites is <<>> where the code passes undefined
\* calculateTotals counting the result kinds of the suite's own tests only
calculateTotals_OwnKinds(tests, nestedSuites, originalTime) ==
    [tests |-> Len(tests) + TotalOf(nestedSuites, "tests"),
     passed |-> CountStatus(tests, "passed"),
     skipped |-> CountStatus(tests, "skipped"),
     failed |-> CountStatus(tests, "failed"),
     error |-> CountStatus(tests, "error"),
     time |-> IF originalTime # 0 THEN originalTime
              ELSE roundTime(CumulativeTime(tests, nestedSuites)),
     cumulativeTime |-> roundTime(CumulativeTime(tests, nestedSuites))]

calculateTotals(tests, nestedSuites, originalTime) ==
    [tests |-> Len(tests) + TotalOf(nestedSuites, "tests"),
     passed |-> CountStatus(tests, "passed") + TotalOf(nestedSuites, "passed"),
     skipped |-> CountStatus(tests, "skipped") + TotalOf(nestedSuites, "skipped"),
     failed |-> CountStatus(tests, "failed") + TotalOf(nestedSuites, "failed"),
     error |-> CountStatus(tests, "error") + TotalOf(nestedSuites, "error"),
     time |-> IF originalTime # 0 THEN originalTime
              ELSE roundTime(CumulativeTime(tests, nestedSuites)),
     cumulativeTime |-> roundTime(CumulativeTime(tests, nestedSuites))]

\* A call of parseSuite, or a loop over such calls, gives [failed, r, entered]: r is the
\* TResult (or the exception), failed whether r is no success, and entered the depths
\* parseSuite was entered with.
Outcome(r, entered) ==
    [failed |-> IF "threw" \in DOMAIN r THEN TRUE ELSE ~r.success, r |-> r, entered |-> entered]

\* SuitesStep going on after a failing suite and returning the last failure
SuitesStep_LastFailure(suiteResult, rest) ==
    IF rest.failed THEN Outcome(rest.r, suiteResult.entered \cup rest.entered)
    ELSE IF suiteResult.failed THEN suiteResult
    ELSE Outcome(Ok(<<suiteResult.r.data>> \o rest.r.data), suiteResult.entered \cup rest.entered)

\* one iteration of a loop over suites and the iterations after it: the first failure is
\* returned, else the parsed suites in order
SuitesStep(suiteResult, rest) ==
    IF suiteResult.failed THEN suiteResult
    ELSE IF rest.failed THEN Outcome(rest.r, suiteResult.entered \cup rest.entered)
    ELSE Outcome(Ok(<<suiteResult.r.data>> \o rest.r.data), suiteResult.entered \cup rest.entered)

\* the object parseSuite returns on success
SuiteData(suite, parsedTests, parsedNestedSuites, properties) ==
    [name |-> sanitizeString(Get(suite, "name")),
     properties |-> properties,
     tests |-> parsedTests,
     suites |-> parsedNestedSuites,
     systemOut |-> IF Truthy(Get(suite, "systemOut"))
                   THEN sanitizeString(Get(suite, "systemOut")) ELSE Absent,
     systemErr |-> IF Truthy(Get(suite, "systemErr"))
                   THEN sanitizeString(Get(suite, "systemErr")) ELSE Absent,
     totals |-> calculateTotals(parsedTests, parsedNestedSuites,
                                parsePositiveFloat(Get(suite, "time")))]

\* parseSuite reaches its loop over the test cases
ReachesTests(suite, depth) ==
    validateNestingDepth(depth).success /\ suite.kind # "absent"

\* parseSuite has nested suites and reaches its loop over them
ReachesNested(suite, depth, testsResult) ==
    /\ ReachesTests(suite, depth)
    /\ testsResult.success
    /\ ToList(Get(suite, "testsuite")) # <<>>

\* parseSuite, given the results of the calls it makes: the loop over the test cases,
\* parseSuite on the first nested suite, the loop over the nested suites after the
\* first, and parseProperties
FinishSuite(suite, depth, testsResult, firstNested, restNested, propertiesResult) ==
    CASE ~validateNestingDepth(depth).success ->
            Outcome(Err(validateNestingDepth(depth).error), {depth})
      [] validateNestingDepth(depth).success /\ suite.kind = "absent" ->
            Outcome(Throw("TypeError"), {depth})
      [] ReachesTests(suite, depth) /\ ~testsResult.success ->
            Outcome(testsResult, {depth})
      [] ReachesNested(suite, depth, testsResult) /\ firstNested.failed ->
            Outcome(firstNested.r, {depth} \cup firstNested.entered)
      [] /\ ReachesNested(suite, depth, testsResult)
         /\ ~firstNested.failed
         /\ restNested.failed ->
            Outcome(restNested.r, {depth} \cup firstNested.entered \cup restNested.entered)
      [] /\ ReachesNested(suite, depth, testsResult)
         /\ ~firstNested.failed
         /\ ~restNested.failed ->
            IF ~propertiesResult.success
            THEN Outcome(propertiesResult,
                         {depth} \cup firstNested.entered \cup restNested.entered)
            ELSE Outcome(Ok(SuiteData(suite, testsResult.data,
                                      <<firstNested.r.data>> \o restNested.r.data,
                                      propertiesResult.data)),
                         {depth} \cup firstNested.entered \cup restNested.entered)
      [] /\ ReachesTests(suite, depth)
         /\ testsResult.success
         /\ ToList(Get(suite, "testsuite")) = <<>> ->
            IF ~propertiesResult.success
            THEN Outcome(propertiesResult, {depth})
            ELSE Outcome(Ok(SuiteData(suite, testsResult.data, <<>>, propertiesResult.data)),
                         {depth})

RECURSIVE parseSuite(_, _)
RECURSIVE ParseSuitesFrom(_, _, _)

\* a loop over suites with parseSuite at the given depth, from suites[i] on
ParseSuitesFrom(suites, i, depth) ==
    IF i > Len(suites) THEN Outcome(Ok(<<>>), {})
    ELSE SuitesStep(parseSuite(suites[i], depth), ParseSuitesFrom(suites, i + 1, depth))

parseSuite(suite, depth) ==
    FinishSuite(suite, depth,
        ParseTestsFrom(ToList(Get(suite, "testcase")), 1),
        parseSuite(Head(ToList(Get(suite, "testsuite"))), depth + 1),
        ParseSuitesFrom(ToList(Get(suite, "testsuite")), 2, depth + 1),
        parseProperties(Get(suite, "properties")))

(***************************************************************************)
(* Report of one document                                                  *)
(***************************************************************************)
ZeroTotals ==
    [tests |-> 0, passed |-> 0, skipped |-> 0, failed |-> 0, error |-> 0,
     time |-> 0, cumulativeTime |-> 0]

\* the reducer of parseJUnitXML: the totals of suite added to acc
AddTotals(acc, suite) ==
    [tests |-> acc.tests + suite.totals.tests,
     passed |-> acc.passed + suite.totals.passed,
     skipped |-> acc.skipped + suite.totals.skipped,
     failed |-> acc.failed + suite.totals.failed,
     error |-> acc.error + suite.totals.error,
     time |-> roundTime(acc.time + suite.totals.time),
     cumulativeTime |-> roundTime(acc.cumulativeTime + suite.totals.cumulativeTime)]

\* parsedSuites.reduce(AddTotals, acc)
RECURSIVE ReduceTotals(_, _)
ReduceTotals(parsedSuites, acc) ==
    IF parsedSuites = <<>> THEN acc
    ELSE ReduceTotals(Tail(parsedSuites), AddTotals(acc, Head(parsedSuites)))

\* the suites parseJUnitXML builds: the wrapper's suite children, else the root suite
TopLevelSuites(parsed) ==
    IF Truthy(parsed.testsuites)
    THEN IF Get(parsed.testsuites, "testsuite").kind = "many"
         THEN Get(parsed.testsuites, "testsuite").v
         ELSE <<Get(parsed.testsuites, "testsuite")>>
    ELSE <<parsed.testsuite>>

\* ReportTotals keeping the summed cumulativeTime of the suites
ReportTotals_SummedCumulative(calculatedTotals, originalTestsuitesTime) ==
    [calculatedTotals EXCEPT !.time = originalTestsuitesTime]

\* ReportTotals keeping the summed time of the suites
ReportTotals_SummedTime(calculatedTotals, originalTestsuitesTime) ==
    [calculatedTotals EXCEPT !.cumulativeTime = roundTime(calculatedTotals.time)]

\* the totals of the report, from the summed totals and the wrapper's time attribute
ReportTotals(calculatedTotals, originalTestsuitesTime) ==
    [calculatedTotals EXCEPT !.time = originalTestsuitesTime,
                             !.cumulativeTime = roundTime(calculatedTotals.time)]

\* A call of parseJUnitXML gives [r, parserCalls, entered]: the TResult (or the
\* exception), the number of times the generic parser was invoked, and the depths
\* parseSuite was entered with.

\* BuildReport checking the wrapper and its time before the outcome of the suites
BuildReport_WrapperFirst(parsed, suites) ==
    IF ~Truthy(parsed.testsuites)
    THEN [r |-> Err(MissingWrapper), parserCalls |-> 1, entered |-> suites.entered]
    ELSE IF ~Truthy(Get(parsed.testsuites, "time"))
    THEN [r |-> Err(MissingTime), parserCalls |-> 1, entered |-> suites.entered]
    ELSE IF suites.failed
    THEN [r |-> suites.r, parserCalls |-> 1, entered |-> suites.entered]
    ELSE [r |-> Ok([testsuites |-> suites.r.data,
                    totals |-> ReportTotals(ReduceTotals(suites.r.data, ZeroTotals),
                                   parsePositiveFloat(Get(parsed.testsuites, "time")))]),
          parserCalls |-> 1,
          entered |-> suites.entered]

\* BuildReport accepting a wrapper without a time attribute
BuildReport_TimeOptional(parsed, suites) ==
    IF suites.failed
    THEN [r |-> suites.r, parserCalls |-> 1, entered |-> suites.entered]
    ELSE IF ~Truthy(parsed.testsuites)
    THEN [r |-> Err(MissingWrapper), parserCalls |-> 1, entered |-> suites.entered]
    ELSE [r |-> Ok([testsuites |-> suites.r.data,
                    totals |-> ReportTotals(ReduceTotals(suites.r.data, ZeroTotals),
                                   parsePositiveFloat(Get(parsed.testsuites, "time")))]),
          parserCalls |-> 1,
          entered |-> suites.entered]

\* parseJUnitXML once the parser has returned parsed and the loop over the suites suites
BuildReport(parsed, suites) ==
    IF suites.failed
    THEN [r |-> suites.r, parserCalls |-> 1, entered |-> suites.entered]
    ELSE IF ~Truthy(parsed.testsuites)
    THEN [r |-> Err(MissingWrapper), parserCalls |-> 1, entered |-> suites.entered]
    ELSE IF ~Truthy(Get(parsed.testsuites, "time"))
    THEN [r |-> Err(MissingTime), parserCalls |-> 1, entered |-> suites.entered]
    ELSE [r |-> Ok([testsuites |-> suites.r.data,
                    totals |-> ReportTotals(ReduceTotals(suites.r.data, ZeroTotals),
                                   parsePositiveFloat(Get(parsed.testsuites, "time")))]),
          parserCalls |-> 1,
          entered |-> suites.entered]

\* ParseValidated entering the top-level suites with depth 1
ParseValidated_DepthFromOne(validation) ==
    IF ~validation.success
    THEN [r |-> Err(validation.error), parserCalls |-> 0, entered |-> {}]
    ELSE IF validation.data.parsed.kind = "throws"
    THEN [r |-> Throw("XMLParserError"), parserCalls |-> 1, entered |-> {}]
    ELSE BuildReport(validation.data.parsed,
             ParseSuitesFrom(TopLevelSuites(validation.data.parsed), 1, 1))

\* parseJUnitXML once validateInput has returned validation
ParseValidated(validation) ==
    IF ~validation.success
    THEN [r |-> Err(validation.error), parserCalls |-> 0, entered |-> {}]
    ELSE IF validation.data.parsed.kind = "throws"
    THEN [r |-> Throw("XMLParserError"), parserCalls |-> 1, entered |-> {}]
    ELSE BuildReport(validation.data.parsed,
             ParseSuitesFrom(TopLevelSuites(validation.data.parsed), 1, 0))

parseJUnitXML(xmlContent) == ParseValidated(validateInput(xmlContent))

(***************************************************************************)
(* Recompute-totals operation                                              *)
(***************************************************************************)
\* aggregate once the nested suites have been aggregated into updatedNestedSuites
Aggregated(suite, updatedNestedSuites) ==
    [suite EXCEPT
        !.suites = updatedNestedSuites,
        !.totals =
            [tests |-> Len(suite.tests) + TotalOf(updatedNestedSuites, "tests"),
             passed |-> CountStatus(suite.tests, "passed") + TotalOf(updatedNestedSuites, "passed"),
             skipped |-> CountStatus(suite.tests, "skipped")
                            + TotalOf(updatedNestedSuites, "skipped"),
             failed |-> CountStatus(suite.tests, "failed") + TotalOf(updatedNestedSuites, "failed"),
             error |-> CountStatus(suite.tests, "error") + TotalOf(updatedNestedSuites, "error"),
             time |-> suite.totals.time,
             cumulativeTime |-> CumulativeTime(suite.tests, updatedNestedSuites)]]

RECURSIVE aggregate(_)
RECURSIVE AggregateFrom(_, _)

\* suite.suites?.map(aggregate), from suites[i] on
AggregateFrom(suites, i) ==
    IF i > Len(suites) THEN <<>>
    ELSE <<aggregate(suites[i])>> \o AggregateFrom(suites, i + 1)

aggregate(suite) == Aggregated(suite, AggregateFrom(suite.suites, 1))

(***************************************************************************)
(* Multi-root recovery                                                     *)
(***************************************************************************)
\* WrapParsed leaving the generic tree as the parser gave it for the text alone
WrapParsed_SameTree(parsed) == parsed

\* what the generic parser returns for `<testsuites>${xmlContent}</testsuites>`
WrapParsed(parsed) ==
    IF parsed.kind = "throws" THEN parsed
    ELSE [kind |-> "root",
          testsuites |-> IF parsed.testsuites.kind = "absent" /\ parsed.testsuite.kind = "absent"
                         THEN EmptyText
                         ELSE [kind |-> "element",
                               testsuites |-> parsed.testsuites,
                               testsuite |-> parsed.testsuite],
          testsuite |-> Absent]

WrapXml(xmlContent) ==
    [isString |-> TRUE,
     text |-> <<[s |-> "<testsuites>", len |-> 12]>> \o xmlContent.text
                \o <<[s |-> "</testsuites>", len |-> 13]>>,
     parsed |-> WrapParsed(xmlContent.parsed)]

\* parseMultiRootXML, given the results of its two calls of parseJUnitXML; the second
\* is made only when the first returned a failure. Gives [r, parserCalls, entered,
\* attempts]; attempts counts the calls of parseJUnitXML.
Recover(firstResult, secondResult) ==
    IF "threw" \in DOMAIN firstResult.r
    THEN firstResult @@ [attempts |-> 1]
    ELSE IF firstResult.r.success
    THEN firstResult @@ [attempts |-> 1]
    ELSE [r |-> IF "threw" \in DOMAIN secondResult.r THEN secondResult.r
                ELSE IF secondResult.r.success THEN secondResult.r
                ELSE firstResult.r,
          parserCalls |-> firstResult.parserCalls + secondResult.parserCalls,
          entered |-> firstResult.entered \cup secondResult.entered,
          attempts |-> 2]

parseMultiRootXML(xmlContent) ==
    Recover(parseJUnitXML(xmlContent), parseJUnitXML(WrapXml(xmlContent)))

(***************************************************************************)
(* File and directory ingestion                                            *)
(* A file system fs maps each path to [kind |-> "missing"],                *)
(* [kind |-> "file", content |-> document] or                              *)
(* [kind |-> "dir", entries |-> sequence of entry names].                  *)
(* A call gives [r, parserCalls, entered, read]; read lists the paths      *)
(* readFileSync was called on, in order.                                   *)
(***************************************************************************)
\* ingestFile once parseMultiRootXML has returned res
FileResult(filePath, res) ==
    [r |-> IF "threw" \in DOMAIN res.r
           THEN Err(<<"Failed to ingest file", filePath, res.r.threw>>)
           ELSE IF ~res.r.success
           THEN Err(<<"Failed to ingest file", filePath>> \o res.r.error)
           ELSE res.r,
     parserCalls |-> res.parserCalls,
     entered |-> res.entered,
     read |-> <<filePath>>]

ingestFile(fs, filePath) ==
    IF fs[filePath].kind # "file"
    THEN [r |-> Err(<<"Failed to ingest file", filePath, "ENOENT">>),
          parserCalls |-> 0, entered |-> {}, read |-> <<filePath>>]
    ELSE FileResult(filePath, parseMultiRootXML(fs[filePath].content))

\* FilesStep ingesting the files after a failing one before it returns that failure
FilesStep_ReadsOn(fileResult, rest) ==
    [r |-> IF ~fileResult.r.success THEN fileResult.r
           ELSE IF ~rest.r.success THEN rest.r
           ELSE Ok(fileResult.r.data.testsuites \o rest.r.data),
     parserCalls |-> fileResult.parserCalls + rest.parserCalls,
     entered |-> fileResult.entered \cup rest.entered,
     read |-> fileResult.read \o rest.read]

\* FilesStep putting the suites of a file after those of the files that follow it
FilesStep_Prepends(fileResult, rest) ==
    IF ~fileResult.r.success THEN fileResult
    ELSE [r |-> IF ~rest.r.success THEN rest.r
                ELSE Ok(rest.r.data \o fileResult.r.data.testsuites),
          parserCalls |-> fileResult.parserCalls + rest.parserCalls,
          entered |-> fileResult.entered \cup rest.entered,
          read |-> fileResult.read \o rest.read]

\* one iteration of the loop of ingestFiles and the iterations after it: the first
\* failure is returned, else the suites of the files in order
FilesStep(fileResult, rest) ==
    IF ~fileResult.r.success THEN fileResult
    ELSE [r |-> IF ~rest.r.success THEN rest.r
                ELSE Ok(fileResult.r.data.testsuites \o rest.r.data),
          parserCalls |-> fileResult.parserCalls + rest.parserCalls,
          entered |-> fileResult.entered \cup rest.entered,
          read |-> fileResult.read \o rest.read]

\* the loop of ingestFiles over the paths, from filePaths[i] on
RECURSIVE IngestFilesFrom(_, _, _)
IngestFilesFrom(fs, filePaths, i) ==
    IF i > Len(filePaths)
    THEN [r |-> Ok(<<>>), parserCalls |-> 0, entered |-> {}, read |-> <<>>]
    ELSE FilesStep(ingestFile(fs, filePaths[i]), IngestFilesFrom(fs, filePaths, i + 1))

\* AddCombinedTotals adding the computed time of a suite where its time is due
AddCombinedTotals_TimeFromCumulative(acc, suite) ==
    [tests |-> acc.tests + suite.totals.tests,
     passed |-> acc.passed + suite.totals.passed,
     skipped |-> acc.skipped + suite.totals.skipped,
     failed |-> acc.failed + suite.totals.failed,
     error |-> acc.error + suite.totals.error,
     time |-> roundTime(acc.time + suite.totals.cumulativeTime),
     cumulativeTime |-> roundTime(acc.cumulativeTime + suite.totals.cumulativeTime)]

\* the reducer of ingestFiles: the totals of suite added to acc
AddCombinedTotals(acc, suite) ==
    [tests |-> acc.tests + suite.totals.tests,
     passed |-> acc.passed + suite.totals.passed,
     skipped |-> acc.skipped + suite.totals.skipped,
     failed |-> acc.failed + suite.totals.failed,
     error |-> acc.error + suite.totals.error,
     time |-> roundTime(acc.time + suite.totals.time),
     cumulativeTime |-> roundTime(acc.cumulativeTime + suite.totals.cumulativeTime)]

\* allSuites.reduce(AddCombinedTotals, acc)
RECURSIVE ReduceCombinedTotals(_, _)
ReduceCombinedTotals(allSuites, acc) ==
    IF allSuites = <<>> THEN acc
    ELSE ReduceCombinedTotals(Tail(allSuites), AddCombinedTotals(acc, Head(allSuites)))

\* ingestFiles once its loop has ended in loop
CombinedReport(loop) ==
    IF ~loop.r.success THEN loop
    ELSE [loop EXCEPT !.r = Ok([testsuites |-> loop.r.data,
                                totals |-> ReduceCombinedTotals(loop.r.data, ZeroTotals)])]

ingestFiles(fs, filePaths) == CombinedReport(IngestFilesFrom(fs, filePaths, 1))

\* path.extname of the entry names of the model
extname(file) ==
    CASE file \in {"a.xml", "b.xml"} -> ".xml"
      [] file = "c.XML" -> ".XML"
      [] file = "notes.txt" -> ".txt"
      [] OTHER -> ""

toLowerCase(s) == IF s = ".XML" THEN ".xml" ELSE s

join(dirPath, file) == dirPath \o "/" \o file

\* XmlFiles keeping every entry of the directory, whatever its extension
XmlFiles_EveryEntry(dirPath, files) ==
    [i \in DOMAIN files |-> join(dirPath, files[i])]

\* files.filter(...).map(...)
XmlFiles(dirPath, files) ==
    [i \in DOMAIN SelectSeq(files, LAMBDA file : toLowerCase(extname(file)) = ".xml") |->
        join(dirPath, SelectSeq(files, LAMBDA file : toLowerCase(extname(file)) = ".xml")[i])]

ingestDir(fs, dirPath) ==
    IF fs[dirPath].kind = "missing"
    THEN [r |-> Err(<<"Failed to ingest directory", dirPath, "ENOENT">>),
          parserCalls |-> 0, entered |-> {}, read |-> <<>>]
    ELSE IF fs[dirPath].kind # "dir"
    THEN [r |-> Err(<<"Path", dirPath, "is not a directory">>),
          parserCalls |-> 0, entered |-> {}, read |-> <<>>]
    ELSE IF Len(XmlFiles(dirPath, fs[dirPath].entries)) = 0
    THEN [r |-> Ok([testsuites |-> <<>>, totals |-> ZeroTotals]),
          parserCalls |-> 0, entered |-> {}, read |-> <<>>]
    ELSE ingestFiles(fs, XmlFiles(dirPath, fs[dirPath].entries))

(***************************************************************************)
(* Metrics generator                                                       *)
(***************************************************************************)
\* the attributes every data point carries: a field of the configuration that is
\* undefined or empty ("" here) gives no attribute
getBaseAttributes(configuration) ==
    LET attribute == [serviceName |-> "service.name",
                      serviceNamespace |-> "service.namespace",
                      serviceVersion |-> "service.version",
                      environment |-> "deployment.environment",
                      repository |-> "vcs.repository.name",
                      branch |-> "vcs.repository.ref.name",
                      commitSha |-> "vcs.repository.ref.revision",
                      runId |-> "ci.run.id",
                      jobUUID |-> "ci.job.id"]
        set == {f \in DOMAIN attribute : f = "serviceName" \/ configuration[f] # ""}
    IN [a \in {attribute[f] : f \in set} |->
           configuration[CHOOSE f \in set : attribute[f] = a]]

MetricDataPoint(metricName, metricType, value, attributes, description, unit) ==
    [metricName |-> metricName, metricType |-> metricType, value |-> value,
     attributes |-> attributes, description |-> description, unit |-> unit]

\* generateTestCaseMetrics once testAttributes is built
TestCaseMetrics(testCase, testAttributes) ==
    <<MetricDataPoint("test.duration", "histogram", testCase.time, testAttributes,
                      "Individual test execution time", "s"),
      MetricDataPoint("test.status", "counter", 1, testAttributes,
                      "Test execution count by status", "{test}")>>
        \o (IF testCase.result.status = "failed" /\ testCase.result.type.len > 0
            THEN <<MetricDataPoint("test.failure", "counter", 1,
                       ("failure.type" :> testCase.result.type.s) @@ testAttributes,
                       "Test failures by type", "{failure}")>>
            ELSE IF testCase.result.status = "error" /\ testCase.result.type.len > 0
            THEN <<MetricDataPoint("test.error", "counter", 1,
                       ("error.type" :> testCase.result.type.s) @@ testAttributes,
                       "Test errors by type", "{error}")>>
            ELSE <<>>)

generateTestCaseMetrics(testCase, suiteAttributes) ==
    TestCaseMetrics(testCase,
        ("test.status" :> testCase.result.status)
            @@ ("test.class.name" :> testCase.classname.s)
            @@ ("test.name" :> testCase.name.s)
            @@ suiteAttributes)

\* the loop over the tests of a suite
RECURSIVE MetricsOfTests(_, _)
MetricsOfTests(tests, suiteAttributes) ==
    IF tests = <<>> THEN <<>>
    ELSE generateTestCaseMetrics(Head(tests), suiteAttributes)
             \o MetricsOfTests(Tail(tests), suiteAttributes)

\* the loop over statusCounts: a data point for each result kind the suite counts tests of
StatusCounts(suite, suiteAttributes) ==
    [i \in DOMAIN SelectSeq(<<"passed", "failed", "error", "skipped">>,
                            LAMBDA status : suite.totals[status] > 0) |->
        MetricDataPoint("test.suite.total", "updowncounter",
            suite.totals[SelectSeq(<<"passed", "failed", "error", "skipped">>,
                                   LAMBDA status : suite.totals[status] > 0)[i]],
            ("test.status" :> SelectSeq(<<"passed", "failed", "error", "skipped">>,
                                        LAMBDA status : suite.totals[status] > 0)[i])
                @@ suiteAttributes,
            "Current test count per suite by status", "{test}")]

RECURSIVE MetricsOfSuites(_, _)

\* generateSuiteMetrics once suiteAttributes is built
SuiteMetrics(suite, baseAttributes, suiteAttributes) ==
    <<MetricDataPoint("test.suite.duration", "histogram", suite.totals.time, suiteAttributes,
                      "Test suite execution time (from XML time attribute)", "s"),
      MetricDataPoint("test.suite.cumulative_duration", "histogram",
                      suite.totals.cumulativeTime, suiteAttributes,
                      "Test suite cumulative time (calculated from child elements)", "s")>>
        \o StatusCounts(suite, suiteAttributes)
        \o MetricsOfTests(suite.tests, suiteAttributes)
        \o MetricsOfSuites(suite.suites, baseAttributes)

generateSuiteMetrics(suite, baseAttributes) ==
    SuiteMetrics(suite, baseAttributes,
        ("test.framework" :> "junit") @@ ("test.suite.name" :> suite.name.s) @@ baseAttributes)

\* a loop over suites pushing the data points of each
MetricsOfSuites(suites, baseAttributes) ==
    IF suites = <<>> THEN <<>>
    ELSE generateSuiteMetrics(Head(suites), baseAttributes)
             \o MetricsOfSuites(Tail(suites), baseAttributes)

generateMetrics(report, configuration) ==
    MetricsOfSuites(report.testsuites, getBaseAttributes(configuration))

(***************************************************************************)
(* MetricsSubmitter                                                        *)
(***************************************************************************)
\* A submitter is [histograms, counters, upDownCounters, created, recorded]: the three
\* maps give for a metric name its instrument, which is the position in created of the
\* call of the meter that created it.
namespace == "cae"
version == "v4"

\* `${this.namespace}.${this.version}.${dataPoint.metricName}`
InstrumentName(metricName) == <<namespace, version, metricName>>

\* getOrCreateMetric asking the meter for an instrument at every call
getOrCreateMetric_AlwaysCreates(metricName, metricMap, meterCalls, instrument) ==
    [metricMap |-> (metricName :> Len(meterCalls) + 1) @@ metricMap,
     created |-> Append(meterCalls, instrument),
     metric |-> Len(meterCalls) + 1]

\* getOrCreateMetric: createMetric() is the call of the meter for instrument
getOrCreateMetric(metricName, metricMap, meterCalls, instrument) ==
    IF metricName \notin DOMAIN metricMap
    THEN [metricMap |-> (metricName :> Len(meterCalls) + 1) @@ metricMap,
          created |-> Append(meterCalls, instrument),
          metric |-> Len(meterCalls) + 1]
    ELSE [metricMap |-> metricMap, created |-> meterCalls, metric |-> metricMap[metricName]]

createHistogramOptions(dataPoint) ==
    IF "buckets" \in DOMAIN dataPoint
    THEN [description |-> dataPoint.description, unit |-> dataPoint.unit,
          advice |-> dataPoint.buckets]
    ELSE [description |-> dataPoint.description, unit |-> dataPoint.unit]

\* the submitter once getOrCreateMetric has returned got for the map metricMap and the
\* instrument is called with the value and attributes of the data point
Recorded(submitter, metricMap, got, method, dataPoint) ==
    [submitter EXCEPT
        ![metricMap] = got.metricMap,
        !.created = got.created,
        !.recorded = Append(@, [instrument |-> got.metric, method |-> method,
                                value |-> dataPoint.value,
                                attributes |-> dataPoint.attributes])]

recordHistogram(submitter, dataPoint) ==
    Recorded(submitter, "histograms",
        getOrCreateMetric(dataPoint.metricName, submitter.histograms, submitter.created,
            [type |-> "histogram", name |-> InstrumentName(dataPoint.metricName),
             options |-> createHistogramOptions(dataPoint)]),
        "record", dataPoint)

incrementCounter(submitter, dataPoint) ==
    Recorded(submitter, "counters",
        getOrCreateMetric(dataPoint.metricName, submitter.counters, submitter.created,
            [type |-> "counter", name |-> InstrumentName(dataPoint.metricName),
             options |-> [description |-> dataPoint.description, unit |-> dataPoint.unit]]),
        "add", dataPoint)

updateUpDownCounter(submitter, dataPoint) ==
    Recorded(submitter, "upDownCounters",
        getOrCreateMetric(dataPoint.metricName, submitter.upDownCounters, submitter.created,
            [type |-> "updowncounter", name |-> InstrumentName(dataPoint.metricName),
             options |-> [description |-> dataPoint.description, unit |-> dataPoint.unit]]),
        "add", dataPoint)

\* the body of the loop of submitMetrics: the switch on the metric type
SubmitPoint(submitter, dataPoint) ==
    CASE dataPoint.metricType = "histogram" -> recordHistogram(submitter, dataPoint)
      [] dataPoint.metricType = "counter" -> incrementCounter(submitter, dataPoint)
      [] dataPoint.metricType = "updowncounter" -> updateUpDownCounter(submitter, dataPoint)
      [] OTHER -> submitter

\* the loop of submitMetrics, from metricDataPoints[i] on
RECURSIVE SubmitFrom(_, _, _)
SubmitFrom(submitter, metricDataPoints, i) ==
    IF i > Len(metricDataPoints) THEN submitter
    ELSE SubmitFrom(SubmitPoint(submitter, metricDataPoints[i]), metricDataPoints, i + 1)

submitMetrics(submitter, metricDataPoints) == SubmitFrom(submitter, metricDataPoints, 1)

(***************************************************************************)
(* Bounds of the inputs                                                    *)
(***************************************************************************)
MaxTests == 2
MaxNested == 2
MaxChain == 22
MaxFiles == 2

(***************************************************************************)
(* Inputs: generic trees, documents and file systems                       *)
(***************************************************************************)
SeqsUpTo(S, n) == UNION {[1..k -> S] : k \in 0..n}
NonEmptySeqsUpTo(S, n) == UNION {[1..k -> S] : k \in 1..n}

Marker(message) == [kind |-> "element", message |-> Str(message, 4), type |-> Str("T", 1)]

TestCase(name, time, failure, error, skipped) ==
    [kind |-> "element", name |-> Str(name, 2), classname |-> Str("C", 1), time |-> time,
     failure |-> failure, error |-> error, skipped |-> skipped]

TestNodes ==
    { TestCase("t1", Num(5000000), Absent, Absent, Absent),
      TestCase("t2", Num(2500004), Marker("fail"), Absent, Absent),
      TestCase("t3", Absent, Absent, Marker("boom"), Absent),
      TestCase("t4", Invalid, Absent, Absent, EmptyText),
      TestCase("t5", Num(15), Marker("fail"), Marker("boom"), Absent),
      TestCase("t6", Num(-5000000), EmptyText, Absent, Absent) }

Suite(name, time, tests, suites) ==
    [kind |-> "element", name |-> Str(name, 2), time |-> time,
     testcase |-> FromList(tests), testsuite |-> FromList(suites)]

SuiteTimes == {Absent, Num(0), Num(30000004), Invalid}

LeafSuites ==
    {Suite("s1", time, tests, <<>>) : time \in SuiteTimes, tests \in SeqsUpTo(TestNodes, MaxTests)}

T1 == TestCase("t1", Num(5000000), Absent, Absent, Absent)
T2 == TestCase("t2", Num(2500004), Marker("fail"), Absent, Absent)
T3 == TestCase("t3", Absent, Absent, Marker("boom"), Absent)
T4 == TestCase("t4", Invalid, Absent, Absent, EmptyText)

NestLeaves ==
    { Suite("n1", Num(30000004), <<T1>>, <<>>),
      Suite("n2", Absent, <<T2, T4>>, <<>>),
      Suite("n3", Num(0), <<T3, T1>>, <<>>),
      EmptyText }

ParentSuites ==
    {Suite("p1", time, tests, suites) :
        time \in {Absent, Num(0), Num(30000004)},
        tests \in {<<>>, <<T1>>},
        suites \in NonEmptySeqsUpTo(NestLeaves, MaxNested)}

\* n suites nested one in the other around leaf: n + 1 suite elements, the leaf at depth n
RECURSIVE Chain(_, _, _)
Chain(n, tests, leaf) ==
    IF n = 0 THEN leaf
    ELSE Suite("ch", IF tests = <<>> THEN Absent ELSE Num(30000004), tests,
               <<Chain(n - 1, tests, leaf)>>)

ChainSuites ==
    {Chain(n, tests, leaf) :
        n \in 1..MaxChain,
        tests \in {<<>>, <<T2>>},
        leaf \in {Suite("n1", Num(30000004), <<T1>>, <<>>), Suite("n3", Num(0), <<T3, T1>>, <<>>)}}

TopSuites == LeafSuites \cup ParentSuites \cup ChainSuites

DocSuites ==
    { Suite("n1", Num(30000004), <<T1>>, <<>>),
      Suite("n2", Absent, <<T2, T4>>, <<>>),
      Suite("n3", Num(0), <<T3, T1>>, <<>>),
      Suite("p1", Num(0), <<T1>>, <<Suite("n1", Num(30000004), <<T1>>, <<>>)>>),
      Chain(MAX_NESTING_DEPTH + 1, <<>>, Suite("n1", Num(30000004), <<T1>>, <<>>)),
      EmptyText }

MaxProps == 2

Property(name, value) == [kind |-> "element", name |-> name, value |-> value]

\* a properties element holding the property elements props
Properties(props) == [kind |-> "element", property |-> FromList(props)]

Repeat(x, n) == [i \in 1..n |-> x]

ValidProperty == Property(Str("p", 1), Str("v", 1))
DroppedProperty == Property(Str("__proto__", 9), Str("w", 1))

\* lists of properties around the limit, with dropped ones before, among and after the others
LongPropertyLists ==
    { Repeat(ValidProperty, MAX_PROPERTIES_COUNT),
      Repeat(ValidProperty, MAX_PROPERTIES_COUNT + 1),
      <<DroppedProperty>> \o Repeat(ValidProperty, MAX_PROPERTIES_COUNT),
      <<DroppedProperty>> \o Repeat(ValidProperty, MAX_PROPERTIES_COUNT + 1),
      Repeat(ValidProperty, MAX_PROPERTIES_COUNT) \o <<DroppedProperty>>,
      Repeat(ValidProperty, MAX_PROPERTIES_COUNT - 1) \o <<DroppedProperty>>,
      Repeat(ValidProperty, MAX_PROPERTIES_COUNT \div 2) \o <<DroppedProperty, DroppedProperty>>
          \o Repeat(ValidProperty, MAX_PROPERTIES_COUNT - (MAX_PROPERTIES_COUNT \div 2)),
      Repeat(DroppedProperty, MAX_PROPERTIES_COUNT + 1) }

\* properties of every kind of name: kept ones, one of them of the longest length kept,
\* and dropped ones
NamedProperties ==
    { Property(Str("a", 1), Str("1", 1)),
      Property(Str("a", 1), Str("2", 1)),
      Property(Str("b", MAX_PROPERTY_NAME_LENGTH), [kind |-> "absent"]),
      Property(Str("c", MAX_PROPERTY_NAME_LENGTH + 1), Str("3", 1)),
      Property(Str("__proto__", 9), Str("4", 1)),
      Property(Str("constructor", 11), Str("5", 1)),
      Property(Str("prototype", 9), Str("6", 1)),
      Property(EmptyText, Str("7", 1)),
      Property(Absent, Str("8", 1)) }

ShortPropertyLists == SeqsUpTo(NamedProperties, MaxProps)

SuiteWith(tests, properties) ==
    [kind |-> "element", name |-> Str("s1", 2), time |-> Num(30000004),
     testcase |-> FromList(tests), testsuite |-> Absent, properties |-> properties]

TestWith(properties) ==
    [kind |-> "element", name |-> Str("t1", 2), classname |-> Str("C", 1),
     time |-> Num(5000000), failure |-> Absent, error |-> Absent, skipped |-> Absent,
     properties |-> properties]

\* suites with properties on the suite, on its test, or on both
PropertySuites ==
    {SuiteWith(<<TestWith(Absent)>>, Properties(l)) : l \in LongPropertyLists}
    \cup {SuiteWith(<<TestWith(Properties(l))>>, Absent) : l \in LongPropertyLists}
    \cup {SuiteWith(<<TestWith(Properties(l))>>, Properties(l)) : l \in ShortPropertyLists}

\* time attributes that are not a number, or a negative one
BadTimes == {Invalid, Num(-5000000)}

\* suites and tests whose time attribute is not a number or negative, the tests without
\* a marker
BadTimeSuites ==
    {Suite("s2", suiteTime, <<TestCase("t7", testTime, Absent, Absent, Absent)>> \o tests, <<>>) :
        suiteTime \in BadTimes \cup {Num(30000004)},
        testTime \in BadTimes,
        tests \in {<<>>, <<T1>>}}

\* a properties element over the limit, a suite with one, and a chain of suites that
\* is too deep
OverLimit == Properties(Repeat(ValidProperty, MAX_PROPERTIES_COUNT + 1))
OverLimitSuite == SuiteWith(<<TestWith(Absent)>>, OverLimit)
DeepSuite == Chain(MAX_NESTING_DEPTH + 1, <<>>, Suite("n1", Num(30000004), <<T1>>, <<>>))

\* suites in which more than one element breaks a bound: among the tests, the nested
\* suites and the properties of the suite
SeveralFailureSuites ==
    {[kind |-> "element", name |-> Str("s3", 2), time |-> Num(30000004),
      testcase |-> FromList(tests), testsuite |-> FromList(suites), properties |-> properties] :
        tests \in {<<T1>>, <<TestWith(OverLimit)>>, <<T1, TestWith(OverLimit)>>},
        suites \in {<<>>, <<DeepSuite>>, <<DeepSuite, OverLimitSuite>>,
                    <<OverLimitSuite, DeepSuite>>, <<Suite("n1", Num(30000004), <<T1>>, <<>>)>>},
        properties \in {Absent, OverLimit}}

Wrapper(time, suites) == [kind |-> "element", time |-> time, testsuite |-> FromList(suites)]

Root(testsuites, testsuite) ==
    [kind |-> "root", testsuites |-> testsuites, testsuite |-> testsuite]

RootTimes == {Absent, EmptyText, Invalid, Num(0), Num(10000004)}

ParsedTrees ==
    {Root(Wrapper(time, <<s>>), Absent) : time \in {Num(0), Num(10000004)}, s \in TopSuites}
    \cup {Root(Wrapper(time, <<s>>), Absent) : time \in RootTimes, s \in DocSuites}
    \cup {Root(Wrapper(time, <<s1, s2>>), Absent) :
            time \in {Absent, Num(10000004)}, s1 \in DocSuites, s2 \in DocSuites}
    \cup {Root(Wrapper(time, <<>>), Absent) : time \in RootTimes}
    \cup {Root(Wrapper(Num(10000004), <<s>>), Absent) : s \in PropertySuites}
    \cup {Root(Wrapper(time, <<s>>), Absent) :
            time \in BadTimes \cup {Num(10000004)}, s \in BadTimeSuites}
    \cup {Root(Wrapper(Absent, <<s>>), Absent) : s \in PropertySuites}
    \cup {Root(Absent, s) : s \in PropertySuites}
    \cup {Root(Wrapper(Num(10000004), <<s>>), Absent) : s \in SeveralFailureSuites}
    \cup {Root(Wrapper(Num(10000004), <<s1, s2>>), Absent) :
            s1 \in {OverLimitSuite, DeepSuite}, s2 \in {OverLimitSuite, DeepSuite}}
    \cup {Root(EmptyText, Absent), Root(Absent, Absent)}
    \cup {Root(Absent, FromList(ss)) : ss \in NonEmptySeqsUpTo(DocSuites, 2)}
    \cup {[kind |-> "throws"]}

Seg(s, n) == [s |-> s, len |-> n]

PlainText == <<Seg("<testsuites ...>", 200)>>

SimpleTree == Root(Wrapper(Num(10000004), <<Suite("n1", Num(30000004), <<T1>>, <<>>)>>), Absent)

GuardTexts ==
    {<<Seg("<?xml?>", 7), Seg("<!", 2), Seg(word, 7), Seg(" x>", filler)>> :
        word \in {"DOCTYPE", "doctype", "DocType", "ELEMENT"},
        filler \in {3, MAX_XML_SIZE - 16, MAX_XML_SIZE - 15}}
    \cup {<<Seg("<a>", 3), Seg("<!", 2), Seg(word, 6), Seg(" x>", filler)>> :
        word \in {"ENTITY", "entity", "Entity", "DOCTYP"},
        filler \in {3, MAX_XML_SIZE - 11, MAX_XML_SIZE - 10}}
    \cup {<<Seg("<", 1), Seg("!--", 3), Seg("DOCTYPE", 7), Seg("-->", 3)>>,
          <<Seg("DOCTYPE", 7), Seg("<!", 2)>>,
          <<Seg("x", MAX_XML_SIZE)>>,
          <<Seg("x", MAX_XML_SIZE + 1)>>,
          <<Seg("x", MAX_XML_SIZE - 1)>>,
          <<>>}

Document(text, parsed) == [isString |-> TRUE, text |-> text, parsed |-> parsed]

\* null, undefined or a number passed for the text
NonString == [isString |-> FALSE, text |-> <<>>, parsed |-> [kind |-> "throws"]]

StringDocuments ==
    {Document(PlainText, parsed) : parsed \in ParsedTrees}
    \cup {Document(text, SimpleTree) : text \in GuardTexts}

Documents == StringDocuments \cup {NonString}

AllPaths == {"dir", "nodir", "dir/a.xml", "dir/b.xml", "dir/c.XML", "dir/notes.txt"}

Missing == [kind |-> "missing"]
File(content) == [kind |-> "file", content |-> content]
Dir(entries) == [kind |-> "dir", entries |-> entries]

FileContents ==
    { Document(PlainText, SimpleTree),
      Document(PlainText, Root(Wrapper(Num(0),
          <<Suite("n2", Absent, <<T2, T4>>, <<>>), Suite("n3", Num(0), <<T3, T1>>, <<>>)>>), Absent)),
      Document(PlainText, Root(Wrapper(Num(20000000),
          <<Suite("p1", Num(0), <<T1>>, <<Suite("n1", Num(30000004), <<T1>>, <<>>)>>)>>), Absent)),
      Document(PlainText, Root(Absent,
          Many(<<Suite("n1", Num(30000004), <<T1>>, <<>>), Suite("n2", Absent, <<T2, T4>>, <<>>)>>))),
      Document(PlainText, Root(Wrapper(Absent, <<Suite("n1", Num(30000004), <<T1>>, <<>>)>>), Absent)),
      Document(PlainText, Root(Wrapper(Num(10000004), <<>>), Absent)),
      Document(<<Seg("<!", 2), Seg("doctype", 7)>>, SimpleTree),
      Document(PlainText, [kind |-> "throws"]) }

FileEntries == {File(content) : content \in FileContents} \cup {Missing}

EntryNames == {"a.xml", "b.xml", "c.XML", "notes.txt"}

\* sequences of distinct entry names
Listings == {l \in SeqsUpTo(EntryNames, MaxFiles) : \A i, j \in DOMAIN l : i # j => l[i] # l[j]}

\* the file system with the given entries, c.XML and notes.txt being fixed files
FileSystem(dir, a, b) ==
    [p \in AllPaths |->
        CASE p = "dir" -> dir
          [] p = "nodir" -> Missing
          [] p = "dir/a.xml" -> a
          [] p = "dir/b.xml" -> b
          [] p = "dir/c.XML" -> File(Document(PlainText, SimpleTree))
          [] p = "dir/notes.txt" -> File(Document(PlainText, [kind |-> "throws"]))]

\* one file of any content
SingleFileSystems ==
    {FileSystem(Dir(<<"a.xml">>), File(content), Missing) : content \in StringDocuments}

\* two files of all contents, the directory listing both
TwoFileSystems ==
    {FileSystem(Dir(<<"a.xml", "b.xml">>), a, b) : a \in FileEntries, b \in FileEntries}

\* two files of all contents under every listing of the directory
ListedFileSystems ==
    {FileSystem(Dir(l), a, b) : l \in Listings, a \in FileEntries, b \in FileEntries}

PathLists == SeqsUpTo({"dir/a.xml", "dir/b.xml"}, MaxFiles)

\* suites as parseSuite builds them, and suites edited afterwards so that their totals are stale
BuiltSuites ==
    {o.r.data : o \in {p \in {parseSuite(s, 0) : s \in TopSuites} : ~p.failed}}

EditedSuites ==
    {[b EXCEPT !.totals = [ZeroTotals EXCEPT !.time = 70000000]] :
        b \in {parseSuite(s, 0).r.data : s \in ParentSuites}}

(***************************************************************************)
(* The state machine: one call of an exported operation                    *)
(***************************************************************************)
Init ==
    /\ call = [op |-> "none"]
    /\ result = Absent
    /\ parserCalls = 0
    /\ depthsEntered = {}
    /\ filesRead = <<>>
    /\ histograms = <<>>
    /\ counters = <<>>
    /\ upDownCounters = <<>>
    /\ created = <<>>
    /\ recorded = <<>>
    /\ submitted = <<>>
    /\ pc = "start"
    /\ config = Absent
    /\ ingestResult = Absent
    /\ effects = <<>>

\* the call c returns with res
Return(c, res) ==
    /\ call' = c
    /\ result' = res.r
    /\ parserCalls' = res.parserCalls
    /\ depthsEntered' = res.entered
    /\ filesRead' = res.read
    /\ UNCHANGED <<submitterVars, runVars>>

ParseJUnitXML(xmlContent) ==
    /\ call.op = "none"
    /\ Return([op |-> "parseJUnitXML", xmlContent |-> xmlContent],
              parseJUnitXML(xmlContent) @@ [read |-> <<>>])

IngestFile(fs, filePath) ==
    /\ call.op = "none"
    /\ Return([op |-> "ingestFile", fs |-> fs, filePath |-> filePath],
              ingestFile(fs, filePath))

IngestFiles(fs, filePaths) ==
    /\ call.op = "none"
    /\ Return([op |-> "ingestFiles", fs |-> fs, filePaths |-> filePaths],
              ingestFiles(fs, filePaths))

IngestDir(fs, dirPath) ==
    /\ call.op = "none"
    /\ Return([op |-> "ingestDir", fs |-> fs, dirPath |-> dirPath],
              ingestDir(fs, dirPath))

Aggregate(suite) ==
    /\ call.op = "none"
    /\ call' = [op |-> "aggregate", suite |-> suite]
    /\ result' = aggregate(suite)
    /\ UNCHANGED <<parserCalls, depthsEntered, filesRead>>
    /\ UNCHANGED <<submitterVars, runVars>>

\* the calls of ingestDir: on a directory, on a missing path and on a file
DirCalls ==
    {<<fs, "dir">> : fs \in ListedFileSystems}
        \cup (TwoFileSystems \X {"nodir", "dir/a.xml"})

\* an exported operation is called with some input
Next ==
    \/ \E xmlContent \in Documents : ParseJUnitXML(xmlContent)
    \/ \E fs \in SingleFileSystems : IngestFile(fs, "dir/a.xml")
    \/ \E fs \in TwoFileSystems, filePaths \in PathLists : IngestFiles(fs, filePaths)
    \/ \E c \in DirCalls : IngestDir(c[1], c[2])
    \/ \E suite \in BuiltSuites \cup EditedSuites : Aggregate(suite)

Spec == Init /\ [][Next]_vars

(***************************************************************************)
(* The state machine of one MetricsSubmitter: calls of submitMetrics       *)
(***************************************************************************)
\* the data points a submitter is given over all its calls
MaxPoints == 3

DataPoint(metricName, metricType, value, attributes) ==
    [metricName |-> metricName, metricType |-> metricType, value |-> value,
     attributes |-> attributes, description |-> "Test metric", unit |-> "{test}"]

\* data points of the three metric types and of one the switch does not know, with two
\* names, values and attributes
DataPoints ==
    {DataPoint(metricName, metricType, 1, [env |-> "dev"]) :
        metricName \in {"test.metric", "test.counter"},
        metricType \in {"histogram", "counter", "updowncounter", "gauge"}}
    \cup {DataPoint("test.counter", metricType, -5, [env |-> "prod"]) :
            metricType \in {"histogram", "counter", "updowncounter"}}

\* the submitter of the state
Submitter ==
    [histograms |-> histograms, counters |-> counters, upDownCounters |-> upDownCounters,
     created |-> created, recorded |-> recorded]

\* the submitter of the state becomes submitter, having been given metricDataPoints
Submit(submitter, metricDataPoints) ==
    /\ histograms' = submitter.histograms
    /\ counters' = submitter.counters
    /\ upDownCounters' = submitter.upDownCounters
    /\ created' = submitter.created
    /\ recorded' = submitter.recorded
    /\ submitted' = submitted \o metricDataPoints

SubmitMetrics(metricDataPoints) ==
    /\ Len(submitted) + Len(metricDataPoints) <= MaxPoints
    /\ Submit(submitMetrics(Submitter, metricDataPoints), metricDataPoints)
    /\ UNCHANGED <<parserVars, runVars>>

SubmitterNext ==
    \E metricDataPoints \in SeqsUpTo(DataPoints, MaxPoints) : SubmitMetrics(metricDataPoints)

SubmitterSpec == Init /\ [][SubmitterNext]_vars

(***************************************************************************)
(* The state machine of the action: run()                                  *)
(***************************************************************************)
\* the configurations run() builds from the inputs and the context of the workflow:
\* the version, the branch and the commit may be empty
Configs ==
    {[serviceName |-> "svc", serviceNamespace |-> "ns", serviceVersion |-> sha,
      environment |-> "staging", repository |-> "o/r", branch |-> branch,
      commitSha |-> sha, runId |-> "", jobUUID |-> ""] :
        sha \in {"", "abc"}, branch \in {"", "main"}}

\* run() going on to submit a report without suites
RunBranch_SubmitsEmpty(res) ==
    IF ~res.success THEN "failed" ELSE "submit"

\* the way run() takes once ingestDir has returned res
RunBranch(res) ==
    IF ~res.success THEN "failed"
    ELSE IF Len(res.data.testsuites) = 0 THEN "empty"
    ELSE "submit"

\* run() reads its inputs and builds the exporter, the meter provider and the
\* submitter; a required input that is missing throws, which the catch reports
RunConfigure(configuration, inputsThere) ==
    /\ pc = "start"
    /\ config' = configuration
    /\ pc' = IF inputsThere THEN "configured" ELSE "done"
    /\ effects' = IF inputsThere THEN <<"core.info: Configuring">>
                  ELSE <<"core.error: submission failed", "core.setFailed">>
    /\ UNCHANGED <<parserVars, submitterVars, ingestResult>>

RunIngest(fs, dirPath) ==
    /\ pc = "configured"
    /\ ingestResult' = ingestDir(fs, dirPath).r
    /\ effects' = effects \o <<"core.info: Processing", "ingestDir">>
    /\ pc' = "ingested"
    /\ UNCHANGED <<parserVars, submitterVars, config>>

RunIngestFailed ==
    /\ pc = "ingested"
    /\ RunBranch(ingestResult) = "failed"
    /\ effects' = Append(effects, "core.error: Failed to ingest")
    /\ pc' = "done"
    /\ UNCHANGED <<parserVars, submitterVars, config, ingestResult>>

RunNoSuites ==
    /\ pc = "ingested"
    /\ RunBranch(ingestResult) = "empty"
    /\ effects' = Append(effects, "core.warning: No test suites found")
    /\ pc' = "done"
    /\ UNCHANGED <<parserVars, submitterVars, config, ingestResult>>

\* the data points are generated and submitted, and forceFlush is called
RunSubmit ==
    /\ pc = "ingested"
    /\ RunBranch(ingestResult) = "submit"
    /\ Submit(submitMetrics(Submitter, generateMetrics(ingestResult.data, config)),
              generateMetrics(ingestResult.data, config))
    /\ effects' = effects \o <<"generateMetrics", "core.info: Generated", "submitMetrics",
                               "core.info: Summary", "forceFlush">>
    /\ pc' = "flushing"
    /\ UNCHANGED <<parserVars, config, ingestResult>>

\* forceFlush settles: the export went through, the diagnostics captured 'metrics export
\* failed', or the promise was rejected
RunFlushed(outcome) ==
    /\ pc = "flushing"
    /\ effects' = effects \o (IF outcome = "exported"
                              THEN <<"core.info: submitted successfully">>
                              ELSE <<"core.error: submission failed", "core.setFailed">>)
    /\ pc' = "done"
    /\ UNCHANGED <<parserVars, submitterVars, config, ingestResult>>

RunNext ==
    \/ \E configuration \in Configs, inputsThere \in BOOLEAN :
           RunConfigure(configuration, inputsThere)
    \/ \E c \in DirCalls : RunIngest(c[1], c[2])
    \/ RunIngestFailed
    \/ RunNoSuites
    \/ RunSubmit
    \/ \E outcome \in {"exported", "export failed", "rejected"} : RunFlushed(outcome)

RunSpec == Init /\ [][RunNext]_vars

(***************************************************************************)
(* Properties                                                              *)
(***************************************************************************)
\* a call of a parsing or ingesting operation has returned a report
ReturnedReport ==
    /\ call.op \in {"parseJUnitXML", "ingestFile", "ingestFiles", "ingestDir"}
    /\ IsOk(result)

\* the document parseJUnitXML or ingestFile was called on
CalledDocument ==
    IF call.op = "parseJUnitXML" THEN call.xmlContent ELSE call.fs[call.filePath].content

\* the suites of a list of suites, at every depth
RECURSIVE SuitesWithin(_)
SuitesWithin(suites) ==
    UNION {{suites[i]} \cup SuitesWithin(suites[i].suites) : i \in DOMAIN suites}

\* the depths of the suites of a list of suites whose own depth is depth
RECURSIVE DepthsOf(_, _)
DepthsOf(suites, depth) ==
    UNION {{depth} \cup DepthsOf(suites[i].suites, depth + 1) : i \in DOMAIN suites}

\* the same for the suite elements of a generic tree
RECURSIVE ElementDepths(_, _)
ElementDepths(elements, depth) ==
    UNION {{depth} \cup ElementDepths(ToList(Get(elements[i], "testsuite")), depth + 1) :
              i \in DOMAIN elements}

\* the number of suite elements in a list of elements, at every depth
RECURSIVE ElementCount(_)
ElementCount(elements) ==
    SumInts([i \in DOMAIN elements |->
                1 + ElementCount(ToList(Get(elements[i], "testsuite")))])

SumOfTotals(suites, field) == SumInts([i \in DOMAIN suites |-> suites[i].totals[field]])

TotalsPartition(totals) ==
    totals.tests = totals.passed + totals.skipped + totals.failed + totals.error

\* C1: in every totals value produced (each suite at every depth, the report of
\* parseJUnitXML and ingestFile, the combined report of ingestFiles, the report of
\* ingestDir, the suites aggregate rebuilds), tests = passed + skipped + failed + error.
C1_TotalsPartition ==
    /\ ReturnedReport =>
        /\ TotalsPartition(result.data.totals)
        /\ \A s \in SuitesWithin(result.data.testsuites) : TotalsPartition(s.totals)
    /\ call.op = "aggregate" =>
        \A s \in SuitesWithin(<<result>>) : TotalsPartition(s.totals)

\* a report with a suite that has nested suites and tests of all four result kinds
C1_Witness ==
    /\ call.op = "parseJUnitXML"
    /\ IsOk(result)
    /\ \E s \in SuitesWithin(result.data.testsuites) :
        /\ s.suites # <<>>
        /\ s.totals.passed > 0
        /\ s.totals.skipped > 0
        /\ s.totals.failed > 0
        /\ s.totals.error > 0

\* C2: the time of the totals of a top-level suite is the suite's declared time whenever
\* the attribute is a parseable non-negative number, zero included.
C2_DeclaredTimeKept ==
    (call.op = "parseJUnitXML" /\ IsOk(result)) =>
        \A i \in DOMAIN result.data.testsuites :
            LET declared == Get(TopLevelSuites(call.xmlContent.parsed)[i], "time")
            IN  (declared.kind = "num" /\ declared.v >= 0) =>
                    result.data.testsuites[i].totals.time = parsePositiveFloat(declared)

\* C3: for every suite of a returned report, at every depth, cumulativeTime is the sum of
\* the times of its tests and of the cumulativeTime of its nested suites, whatever its time.
C3_CumulativeTimeIsSum ==
    ReturnedReport =>
        \A s \in SuitesWithin(result.data.testsuites) :
            s.totals.cumulativeTime =
                SumInts([i \in DOMAIN s.tests |-> s.tests[i].time])
                    + SumOfTotals(s.suites, "cumulativeTime")

\* a suite with tests and nested suites whose declared time is not its computed time
C3_Witness ==
    /\ ReturnedReport
    /\ \E s \in SuitesWithin(result.data.testsuites) :
        /\ s.tests # <<>>
        /\ s.suites # <<>>
        /\ s.totals.cumulativeTime > 0
        /\ s.totals.time # s.totals.cumulativeTime

\* C4 as claimed: the cumulativeTime of the report of parseJUnitXML is the sum of the
\* cumulativeTime of the top-level suites.
C4_ReportCumulativeIsSumOfCumulative ==
    (call.op = "parseJUnitXML" /\ IsOk(result)) =>
        result.data.totals.cumulativeTime =
            SumOfTotals(result.data.testsuites, "cumulativeTime")

\* C4: the cumulativeTime of the report of parseJUnitXML is the sum of the time of the
\* totals of the top-level suites.
C4_ReportCumulativeIsSumOfTimes ==
    (call.op = "parseJUnitXML" /\ IsOk(result)) =>
        result.data.totals.cumulativeTime = SumOfTotals(result.data.testsuites, "time")

\* a report of several suites whose times and computed times have different sums
C4_Witness ==
    /\ call.op = "parseJUnitXML"
    /\ IsOk(result)
    /\ Len(result.data.testsuites) > 1
    /\ SumOfTotals(result.data.testsuites, "time")
           # SumOfTotals(result.data.testsuites, "cumulativeTime")

\* C5: the time of the report of parseJUnitXML and of ingestFile is the parsed time
\* attribute of the root wrapper.
C5_ReportTimeIsWrapperTime ==
    (call.op \in {"parseJUnitXML", "ingestFile"} /\ IsOk(result)) =>
        result.data.totals.time =
            parsePositiveFloat(Get(CalledDocument.parsed.testsuites, "time"))

\* a file whose wrapper declares a time that is neither the sum of the times of its
\* suites nor the sum of their computed times
C5_Witness ==
    /\ call.op = "ingestFile"
    /\ IsOk(result)
    /\ result.data.totals.time > 0
    /\ result.data.totals.time # SumOfTotals(result.data.testsuites, "time")
    /\ result.data.totals.time # SumOfTotals(result.data.testsuites, "cumulativeTime")

\* the top-level suites of the files at the paths, in order, each file parsed on its own
RECURSIVE SuitesOfFiles(_, _)
SuitesOfFiles(fs, filePaths) ==
    IF filePaths = <<>> THEN <<>>
    ELSE parseJUnitXML(fs[Head(filePaths)].content).r.data.testsuites
             \o SuitesOfFiles(fs, Tail(filePaths))

\* the sum of the parsed time attributes of the root wrappers of the files at the paths
RECURSIVE WrapperTimes(_, _)
WrapperTimes(fs, filePaths) ==
    IF filePaths = <<>> THEN 0
    ELSE parsePositiveFloat(Get(fs[Head(filePaths)].content.parsed.testsuites, "time"))
             + WrapperTimes(fs, Tail(filePaths))

\* C6: the totals of the report of ingestFiles are, field by field, the sums over the
\* top-level suites of all the files.
C6_CombinedTotalsAreSums ==
    (call.op = "ingestFiles" /\ IsOk(result)) =>
        /\ result.data.testsuites = SuitesOfFiles(call.fs, call.filePaths)
        /\ \A field \in {"tests", "passed", "skipped", "failed", "error", "time",
                         "cumulativeTime"} :
            result.data.totals[field]
                = SumOfTotals(SuitesOfFiles(call.fs, call.filePaths), field)

\* two files combined, the times of their wrappers adding up to something else
C6_Witness ==
    /\ call.op = "ingestFiles"
    /\ IsOk(result)
    /\ Len(call.filePaths) = 2
    /\ Len(result.data.testsuites) > 2
    /\ result.data.totals.time # result.data.totals.cumulativeTime
    /\ result.data.totals.time # WrapperTimes(call.fs, call.filePaths)

\* parseJUnitXML was called on a text that holds a marker
CalledWithMarker ==
    /\ call.op = "parseJUnitXML"
    /\ call.xmlContent.isString
    /\ MarkerTest(call.xmlContent.text)

\* C7 as claimed: every input that holds a marker, in any letter case, fails with
\* MaliciousContent, the parser not being invoked.
C7_MarkerAlwaysMalicious ==
    CalledWithMarker => (result = Err(MaliciousContent) /\ parserCalls = 0)

\* C7: every input that holds a marker, in any letter case, fails without the parser
\* being invoked: with MaliciousContent when it is within the size limit, with
\* SizeExceeded when it is longer.
C7_MarkerRejectedBeforeParser ==
    CalledWithMarker =>
        /\ parserCalls = 0
        /\ TextLength(call.xmlContent.text) <= MAX_XML_SIZE => result = Err(MaliciousContent)
        /\ TextLength(call.xmlContent.text) > MAX_XML_SIZE => result = Err(SizeExceeded)

\* a marker in lower case in a text of exactly the size limit
C7_Witness ==
    /\ CalledWithMarker
    /\ \E i \in DOMAIN call.xmlContent.text : call.xmlContent.text[i].s \in {"doctype", "entity"}
    /\ TextLength(call.xmlContent.text) = MAX_XML_SIZE
    /\ result = Err(MaliciousContent)
    /\ parserCalls = 0

\* C8: validateInput accepts exactly the strings of at most MAX_XML_SIZE characters that
\* hold no marker, and returns the text it accepts; a longer string fails with
\* SizeExceeded, a non-string with the type error; parseJUnitXML invokes the parser
\* exactly on the accepted inputs.
C8_GuardAcceptance ==
    call.op = "parseJUnitXML" =>
        /\ validateInput(call.xmlContent).success
               <=> /\ call.xmlContent.isString
                   /\ TextLength(call.xmlContent.text) <= MAX_XML_SIZE
                   /\ ~MarkerTest(call.xmlContent.text)
        /\ validateInput(call.xmlContent).success
               => validateInput(call.xmlContent).data = call.xmlContent
        /\ ~call.xmlContent.isString => result = Err(TypeErrorKind)
        /\ (call.xmlContent.isString /\ TextLength(call.xmlContent.text) > MAX_XML_SIZE)
               => result = Err(SizeExceeded)
        /\ parserCalls = (IF validateInput(call.xmlContent).success THEN 1 ELSE 0)

\* a text of exactly the size limit is accepted and parsed
C8_Witness ==
    /\ call.op = "parseJUnitXML"
    /\ call.xmlContent.isString
    /\ TextLength(call.xmlContent.text) = MAX_XML_SIZE
    /\ parserCalls = 1
    /\ IsOk(result)

\* parseJUnitXML was called and the parser returned a tree
ParsedTree ==
    /\ call.op = "parseJUnitXML"
    /\ parserCalls = 1
    /\ call.xmlContent.parsed.kind = "root"

\* C9: parseSuite is entered with depth 0 for the top-level suites and one more for each
\* level of nesting; the call fails with MaxDepthExceeded exactly when parseSuite was
\* entered with a depth above MAX_NESTING_DEPTH; a report holds no suite deeper than
\* MAX_NESTING_DEPTH, and a document whose deepest suite is at MAX_NESTING_DEPTH is not
\* refused for its depth.
C9_DepthLimit ==
    ParsedTree =>
        /\ depthsEntered \subseteq ElementDepths(TopLevelSuites(call.xmlContent.parsed), 0)
        /\ result = Err(MaxDepthExceeded) <=> (\E d \in depthsEntered : d > MAX_NESTING_DEPTH)
        /\ IsOk(result) =>
            /\ depthsEntered = DepthsOf(result.data.testsuites, 0)
            /\ \A d \in DepthsOf(result.data.testsuites, 0) : d <= MAX_NESTING_DEPTH
        /\ (\A d \in ElementDepths(TopLevelSuites(call.xmlContent.parsed), 0) :
                d <= MAX_NESTING_DEPTH) => result # Err(MaxDepthExceeded)

\* a report whose deepest suite is at depth MAX_NESTING_DEPTH
C9_Witness ==
    /\ ParsedTree
    /\ IsOk(result)
    /\ depthsEntered = 0..MAX_NESTING_DEPTH
    /\ MAX_NESTING_DEPTH \in DepthsOf(result.data.testsuites, 0)

\* parseJUnitXML was called on a root wrapper holding a chain of n suite elements, each
\* nested in the one before
ChainOf(n) ==
    /\ ParsedTree
    /\ Truthy(call.xmlContent.parsed.testsuites)
    /\ Len(TopLevelSuites(call.xmlContent.parsed)) = 1
    /\ ElementCount(TopLevelSuites(call.xmlContent.parsed)) = n
    /\ ElementDepths(TopLevelSuites(call.xmlContent.parsed), 0) = 0..(n - 1)

\* C10 as claimed: a chain of 21 suite elements fails with MaxDepthExceeded, a chain of
\* 20 is accepted.
C10_TwentyOneLevelsRejected ==
    /\ ChainOf(MAX_NESTING_DEPTH + 1) => result = Err(MaxDepthExceeded)
    /\ ChainOf(MAX_NESTING_DEPTH) => IsOk(result)

\* C10: a chain of 22 suite elements, the deepest at depth 21, fails with
\* MaxDepthExceeded; a chain of 21, the deepest at depth 20, is accepted.
C10_TwentyTwoLevelsRejected ==
    /\ ChainOf(MAX_NESTING_DEPTH + 2) => result = Err(MaxDepthExceeded)
    /\ ChainOf(MAX_NESTING_DEPTH + 1) => IsOk(result)

\* a chain of 22 suite elements is refused
C10_Witness ==
    /\ ChainOf(MAX_NESTING_DEPTH + 2)
    /\ result = Err(MaxDepthExceeded)
    /\ MAX_NESTING_DEPTH + 1 \in depthsEntered

\* the property elements of a properties element
PropertiesOf(propertiesElement) ==
    IF ~Truthy(propertiesElement) \/ ~Truthy(Get(propertiesElement, "property"))
    THEN <<>>
    ELSE PropertyList(Get(propertiesElement, "property"))

\* a name that is not empty, not longer than 100 characters and none of the refused names
NameKept(name) ==
    /\ name.kind = "text"
    /\ name.len \in 1..100
    /\ name.s \notin {"__proto__", "constructor", "prototype"}

\* the number of properties with a kept name among the property elements props
KeptCount(props) == Cardinality({i \in DOMAIN props : NameKept(Get(props[i], "name"))})

\* parseJUnitXML was called on a wrapper with a time holding one suite that carries a
\* properties element (on itself or on its test), with one test and no nested suite
PropertiesDocument ==
    /\ ParsedTree
    /\ Truthy(Get(call.xmlContent.parsed.testsuites, "time"))
    /\ Len(TopLevelSuites(call.xmlContent.parsed)) = 1
    /\ "properties" \in DOMAIN TopLevelSuites(call.xmlContent.parsed)[1]
    /\ Get(TopLevelSuites(call.xmlContent.parsed)[1], "testsuite").kind = "absent"
    /\ Len(ToList(Get(TopLevelSuites(call.xmlContent.parsed)[1], "testcase"))) = 1

\* the suite element of such a document and its test element
PropertiesSuite == TopLevelSuites(call.xmlContent.parsed)[1]
PropertiesTest == ToList(Get(PropertiesSuite, "testcase"))[1]

\* C11: building the property maps fails with TooManyProperties exactly when an element
\* carries more than 1000 properties with a valid name, whatever dropped properties
\* accompany them and wherever they are in the list.
C11_LimitCountsValidProperties ==
    PropertiesDocument =>
        (result = Err(TooManyProperties)
            <=> \/ KeptCount(PropertiesOf(Get(PropertiesSuite, "properties")))
                       > MAX_PROPERTIES_COUNT
                \/ KeptCount(PropertiesOf(Get(PropertiesTest, "properties")))
                       > MAX_PROPERTIES_COUNT)

\* the map parseProperties is to build from the property elements props: the kept names,
\* each with the value of the last property of that name
KeptProperties(props) ==
    LET kept == {i \in DOMAIN props : NameKept(Get(props[i], "name"))}
        keys == {sanitizeString(Get(props[i], "name")) : i \in kept}
        last(k) == CHOOSE i \in kept :
                       /\ sanitizeString(Get(props[i], "name")) = k
                       /\ \A j \in kept : sanitizeString(Get(props[j], "name")) = k => j <= i
    IN  IF kept = {} THEN Absent
        ELSE [kind |-> "map", entries |-> [k \in keys |-> PropertyValue(props[last(k)])]]

\* the keys of a property map
KeysOf(properties) == IF properties.kind = "map" THEN DOMAIN properties.entries ELSE {}

KindByMarkers(testcase) ==
    IF Get(testcase, "failure").kind # "absent" THEN "failed"
    ELSE IF Get(testcase, "error").kind # "absent" THEN "error"
    ELSE IF Get(testcase, "skipped").kind # "absent" THEN "skipped"
    ELSE "passed"

\* C13: the result kind of every test of a top-level suite is failed when the test case
\* has a failure child (be it without attributes and text), else error when it has an
\* error child, else skipped when it has a skipped marker, else passed.
C13_KindByMarkerPresence ==
    (ParsedTree /\ IsOk(result)) =>
        \A i \in DOMAIN result.data.testsuites :
            \A j \in DOMAIN result.data.testsuites[i].tests :
                result.data.testsuites[i].tests[j].result.status
                    = KindByMarkers(
                          ToList(Get(TopLevelSuites(call.xmlContent.parsed)[i], "testcase"))[j])

\* ingestFile was called on a file that is there
CalledOnFile ==
    /\ call.op = "ingestFile"
    /\ call.fs[call.filePath].kind = "file"

\* what the direct attempt and the retry of parseMultiRootXML give on the file's text
DirectAttempt == parseJUnitXML(call.fs[call.filePath].content)
RetryAttempt == parseJUnitXML(WrapXml(call.fs[call.filePath].content))

\* C14: on the text of a file, parseMultiRootXML makes exactly one retry whenever the
\* direct attempt does not succeed, be it by a failure or by an exception, and none when
\* it succeeds.
C14_RetryOnEveryFailure ==
    CalledOnFile =>
        parseMultiRootXML(call.fs[call.filePath].content).attempts
            = (IF IsOk(DirectAttempt.r) THEN 1 ELSE 2)

\* C15: when the direct attempt returns a failure and the retry does not succeed, be it
\* by a failure or by an exception, ingestFile returns the failure of the direct attempt
\* under the path of the file.
C15_FirstErrorSurfaced ==
    (CalledOnFile /\ IsErr(DirectAttempt.r) /\ ~IsOk(RetryAttempt.r)) =>
        result = Err(<<"Failed to ingest file", call.filePath>> \o DirectAttempt.r.error)

\* the file holds two or more root suite elements and no wrapper, each suite being valid
CalledOnMultiRoot ==
    /\ CalledOnFile
    /\ call.fs[call.filePath].content.parsed.kind = "root"
    /\ call.fs[call.filePath].content.parsed.testsuites.kind = "absent"
    /\ call.fs[call.filePath].content.parsed.testsuite.kind = "many"
    /\ \A i \in DOMAIN call.fs[call.filePath].content.parsed.testsuite.v :
           ~parseSuite(call.fs[call.filePath].content.parsed.testsuite.v[i], 0).failed

\* C16: a file of two or more valid root suites without a wrapper is recovered: ingestFile
\* returns a report of those suites in the order of the document.
C16_MultiRootRecovered ==
    CalledOnMultiRoot =>
        /\ IsOk(result)
        /\ result.data.testsuites
               = [i \in DOMAIN call.fs[call.filePath].content.parsed.testsuite.v |->
                     parseSuite(call.fs[call.filePath].content.parsed.testsuite.v[i], 0).r.data]

\* the generic tree parseJUnitXML was called on has no root wrapper, or a root wrapper
\* without a time attribute
WrapperLacksTime ==
    /\ ParsedTree
    /\ \/ call.xmlContent.parsed.testsuites.kind = "absent"
       \/ Get(call.xmlContent.parsed.testsuites, "time").kind = "absent"

\* the top-level suites of the generic tree parseJUnitXML was called on are all valid
TopLevelSuitesValid ==
    ~ParseSuitesFrom(TopLevelSuites(call.xmlContent.parsed), 1, 0).failed

\* C17: parseJUnitXML returns no report for a document without a root wrapper or whose
\* root wrapper has no time attribute; when the suites of the document are valid it
\* returns the missing-wrapper failure for an absent wrapper and the missing-time failure
\* for a wrapper element without time.
C17_WrapperTimeRequired ==
    WrapperLacksTime =>
        /\ ~IsOk(result)
        /\ TopLevelSuitesValid =>
               /\ result \in {Err(MissingWrapper), Err(MissingTime)}
               /\ call.xmlContent.parsed.testsuites.kind = "absent"
                      => result = Err(MissingWrapper)
               /\ call.xmlContent.parsed.testsuites.kind = "element"
                      => result = Err(MissingTime)

\* C17 happens: a wrapper without time around a valid suite with a test is refused with
\* the missing-time failure
C17_Witness ==
    /\ WrapperLacksTime
    /\ call.xmlContent.parsed.testsuites.kind = "element"
    /\ TopLevelSuitesValid
    /\ ParseSuitesFrom(TopLevelSuites(call.xmlContent.parsed), 1, 0).r.data[1].totals.tests > 0
    /\ result = Err(MissingTime)

\* C18: no public ingestion operation raises an exception to its caller: each returns a
\* success or a failure for every input.
C18_NoExceptionCrosses ==
    call.op \in {"parseJUnitXML", "ingestFile", "ingestFiles", "ingestDir"}
        => ~IsThrow(result)

\* the index of the first path of filePaths, from i on, whose ingestion fails; 0 if none
RECURSIVE FirstFailing(_, _, _)
FirstFailing(fs, filePaths, i) ==
    IF i > Len(filePaths) THEN 0
    ELSE IF ~ingestFile(fs, filePaths[i]).r.success THEN i
    ELSE FirstFailing(fs, filePaths, i + 1)

\* the number of parser calls that ingesting the first k paths one by one makes
RECURSIVE ParserCallsUpTo(_, _, _)
ParserCallsUpTo(fs, filePaths, k) ==
    IF k = 0 THEN 0
    ELSE ParserCallsUpTo(fs, filePaths, k - 1) + ingestFile(fs, filePaths[k]).parserCalls

\* C19: ingestFiles takes the paths in order and stops at the first file whose ingestion
\* fails: the result is that file's failure and carries no suites, the files read are
\* the paths up to that file, and nothing after it is parsed; it succeeds when no file
\* fails.
C19_FailFastInOrder ==
    call.op = "ingestFiles" =>
        IF FirstFailing(call.fs, call.filePaths, 1) = 0
        THEN IsOk(result) /\ filesRead = call.filePaths
        ELSE /\ result = ingestFile(call.fs,
                             call.filePaths[FirstFailing(call.fs, call.filePaths, 1)]).r
             /\ DOMAIN result = {"success", "error"}
             /\ filesRead = SubSeq(call.filePaths, 1, FirstFailing(call.fs, call.filePaths, 1))
             /\ parserCalls = ParserCallsUpTo(call.fs, call.filePaths,
                                  FirstFailing(call.fs, call.filePaths, 1))

\* C19 happens: the first of two files fails in the parser, the second one would have
\* been ingested, and only the first was read
C19_Witness ==
    /\ call.op = "ingestFiles"
    /\ Len(call.filePaths) = 2
    /\ call.filePaths[1] # call.filePaths[2]
    /\ call.fs[call.filePaths[1]].kind = "file"
    /\ IsErr(result)
    /\ ingestFile(call.fs, call.filePaths[2]).r.success
    /\ ingestFile(call.fs, call.filePaths[2]).parserCalls > 0
    /\ filesRead = <<call.filePaths[1]>>

\* the suite elements at the top level of the documents of the files at the paths, in the
\* order of the paths and of each document
RECURSIVE ElementsOfFiles(_, _)
ElementsOfFiles(fs, filePaths) ==
    IF filePaths = <<>> THEN <<>>
    ELSE TopLevelSuites(fs[Head(filePaths)].content.parsed)
             \o ElementsOfFiles(fs, Tail(filePaths))

\* C20: when ingestFiles succeeds, the suites of the report are the suites built from
\* the top-level suite elements of the files, one for one, in the order of the paths and
\* within a file in the order of its document.
C20_SuitesConcatenatedInOrder ==
    (call.op = "ingestFiles" /\ IsOk(result)) =>
        result.data.testsuites
            = [i \in DOMAIN ElementsOfFiles(call.fs, call.filePaths) |->
                  parseSuite(ElementsOfFiles(call.fs, call.filePaths)[i], 0).r.data]

\* C20 happens: two different files with three suites between them, the first file's
\* suite coming first
C20_Witness ==
    /\ call.op = "ingestFiles"
    /\ IsOk(result)
    /\ Len(call.filePaths) = 2
    /\ call.fs[call.filePaths[1]] # call.fs[call.filePaths[2]]
    /\ Len(result.data.testsuites) = 3
    /\ Len(TopLevelSuites(call.fs[call.filePaths[1]].content.parsed)) = 1
    /\ result.data.testsuites[1].name # result.data.testsuites[2].name
    /\ result.data.testsuites[1].name # result.data.testsuites[3].name

\* ingestDir was called on a directory that is there
CalledOnDirectory ==
    /\ call.op = "ingestDir"
    /\ call.fs[call.dirPath].kind = "dir"

\* no entry of the directory has the extension .xml, in whatever case
NoXmlEntry ==
    \A i \in DOMAIN call.fs[call.dirPath].entries :
        toLowerCase(extname(call.fs[call.dirPath].entries[i])) # ".xml"

\* C21: ingestDir on a directory with no entry of extension .xml, in whatever case,
\* returns the empty report with all totals zero and reads and parses no file; on any
\* directory only entries of that extension are read.
C21_NoXmlEmptyReport ==
    CalledOnDirectory =>
        /\ NoXmlEntry =>
               /\ result = Ok([testsuites |-> <<>>, totals |-> ZeroTotals])
               /\ filesRead = <<>>
               /\ parserCalls = 0
        /\ \A i \in DOMAIN filesRead :
               \E j \in DOMAIN call.fs[call.dirPath].entries :
                   /\ filesRead[i] = join(call.dirPath, call.fs[call.dirPath].entries[j])
                   /\ toLowerCase(extname(call.fs[call.dirPath].entries[j])) = ".xml"

\* C21 happens: the directory holds one entry, of another extension, and the report is
\* empty
C21_Witness ==
    /\ CalledOnDirectory
    /\ call.fs[call.dirPath].entries = <<"notes.txt">>
    /\ result = Ok([testsuites |-> <<>>, totals |-> ZeroTotals])
    /\ filesRead = <<>>

\* a time attribute that is not a number, or a negative one
BadTime(value) == value.kind = "invalid" \/ (value.kind = "num" /\ value.v < 0)

\* the generic value with every such time attribute of a suite or test replaced by "0"
RECURSIVE ZeroBadTimes(_)
ZeroBadTimes(value) ==
    IF value.kind = "many"
    THEN Many([i \in DOMAIN value.v |-> ZeroBadTimes(value.v[i])])
    ELSE IF value.kind = "element"
    THEN [f \in DOMAIN value |->
             IF f = "time" THEN (IF BadTime(value.time) THEN Num(0) ELSE value.time)
             ELSE IF f \in {"testcase", "testsuite"} THEN ZeroBadTimes(value[f])
             ELSE value[f]]
    ELSE value

\* the times of the tests and the totals of the suites, at every depth, are not negative
RECURSIVE TimesNotNegative(_)
TimesNotNegative(suites) ==
    \A i \in DOMAIN suites :
        /\ suites[i].totals.time >= 0
        /\ suites[i].totals.cumulativeTime >= 0
        /\ \A j \in DOMAIN suites[i].tests : suites[i].tests[j].time >= 0
        /\ TimesNotNegative(suites[i].suites)

\* C22: a time attribute of a test or suite that is not a number or is negative is read
\* as 0 without failing the parse: each top-level suite is built as if the attribute
\* were "0", no time in a report is negative, and a test with such a time and no marker
\* has time 0 and is passed.
C22_BadTimeIsZero ==
    /\ ReturnedReport =>
           /\ TimesNotNegative(result.data.testsuites)
           /\ result.data.totals.time >= 0
           /\ result.data.totals.cumulativeTime >= 0
    /\ ParsedTree =>
           \A i \in DOMAIN TopLevelSuites(call.xmlContent.parsed) :
               parseSuite(TopLevelSuites(call.xmlContent.parsed)[i], 0)
                   = parseSuite(ZeroBadTimes(TopLevelSuites(call.xmlContent.parsed)[i]), 0)
    /\ (ParsedTree /\ IsOk(result)) =>
           \A i \in DOMAIN result.data.testsuites :
               \A j \in DOMAIN result.data.testsuites[i].tests :
                   BadTime(Get(ToList(Get(TopLevelSuites(call.xmlContent.parsed)[i],
                                          "testcase"))[j], "time"))
                       => /\ result.data.testsuites[i].tests[j].time = 0
                          /\ KindByMarkers(ToList(Get(TopLevelSuites(call.xmlContent.parsed)[i],
                                                      "testcase"))[j]) = "passed"
                                 => result.data.testsuites[i].tests[j].result.status = "passed"

\* C22 happens: a report of a suite and a test without marker, both with a negative
\* time, beside a test of positive time
C22_Witness ==
    /\ ParsedTree
    /\ IsOk(result)
    /\ call.xmlContent.parsed.testsuites.testsuite
           = Suite("s2", Num(-5000000),
                   <<TestCase("t7", Num(-5000000), Absent, Absent, Absent), T1>>, <<>>)
    /\ result.data.testsuites[1].tests[1].time = 0
    /\ result.data.testsuites[1].tests[1].result.status = "passed"
    /\ result.data.testsuites[1].totals.passed = 2
    /\ result.data.testsuites[1].totals.cumulativeTime = 5000000

\* at every level of the suite, totals.time and totals.cumulativeTime are both the sum of
\* the times of its tests and of the cumulativeTime of its nested suites
RECURSIVE TimesRecomputed(_)
TimesRecomputed(suite) ==
    /\ suite.totals.cumulativeTime
           = SumInts([i \in DOMAIN suite.tests |-> suite.tests[i].time])
                 + SumInts([i \in DOMAIN suite.suites |-> suite.suites[i].totals.cumulativeTime])
    /\ suite.totals.time = suite.totals.cumulativeTime
    /\ \A i \in DOMAIN suite.suites : TimesRecomputed(suite.suites[i])

\* C23: aggregate returns a suite whose totals.time and totals.cumulativeTime are, at
\* every level, the time recomputed from its tests and nested suites, whatever
\* totals.time the suite it was given had stored.
C23_AggregateRecomputesTime ==
    call.op = "aggregate" => TimesRecomputed(result)

\* the tests of the subtree of a suite of a report, each one once
RECURSIVE TestsWithin(_)
TestsWithin(suite) ==
    IF suite.suites = <<>> THEN suite.tests
    ELSE suite.tests \o TestsWithin(Head(suite.suites))
             \o TestsWithin([suite EXCEPT !.tests = <<>>, !.suites = Tail(suite.suites)])

\* the number of test case elements in the subtree of a suite element
RECURSIVE TestElements(_)
TestElements(suite) ==
    Len(ToList(Get(suite, "testcase")))
        + SumInts([i \in DOMAIN ToList(Get(suite, "testsuite")) |->
                      TestElements(ToList(Get(suite, "testsuite"))[i])])

\* C24: for every suite of a report, at every depth, totals.tests is the number of tests
\* in the subtree of the suite and the totals of each result kind the number of those
\* tests of that kind; for a top-level suite that is the number of test case elements in
\* the subtree of its element.
C24_TotalsCountSubtree ==
    /\ ReturnedReport =>
           \A s \in SuitesWithin(result.data.testsuites) :
               /\ s.totals.tests = Len(TestsWithin(s))
               /\ \A kind \in {"passed", "skipped", "failed", "error"} :
                      s.totals[kind] = CountStatus(TestsWithin(s), kind)
    /\ (ParsedTree /\ IsOk(result)) =>
           \A i \in DOMAIN result.data.testsuites :
               result.data.testsuites[i].totals.tests
                   = TestElements(TopLevelSuites(call.xmlContent.parsed)[i])

\* C24 happens: a suite with a test of its own and two nested suites with tests, of
\* three result kinds
C24_Witness ==
    /\ ParsedTree
    /\ IsOk(result)
    /\ Len(result.data.testsuites[1].tests) = 1
    /\ Len(result.data.testsuites[1].suites) = 2
    /\ result.data.testsuites[1].totals.tests = 5
    /\ result.data.testsuites[1].totals.passed = 2
    /\ result.data.testsuites[1].totals.failed = 1
    /\ result.data.testsuites[1].totals.skipped = 1
    /\ result.data.testsuites[1].totals.error = 1

Entered(depth) == [enter |-> depth, fail |-> <<>>]
Failed(error) == [enter |-> -1, fail |-> error]

PropertyEvents(propertiesElement) ==
    IF parseProperties(propertiesElement).success THEN <<>>
    ELSE <<Failed(parseProperties(propertiesElement).error)>>

RECURSIVE TestEvents(_)
TestEvents(testcases) ==
    IF testcases = <<>> THEN <<>>
    ELSE PropertyEvents(Get(Head(testcases), "properties")) \o TestEvents(Tail(testcases))

RECURSIVE SuiteEvents(_, _)
RECURSIVE SuitesEvents(_, _)
SuiteEvents(suite, depth) ==
    <<Entered(depth)>>
        \o (IF ~validateNestingDepth(depth).success
            THEN <<Failed(validateNestingDepth(depth).error)>>
            ELSE TestEvents(ToList(Get(suite, "testcase")))
                     \o SuitesEvents(ToList(Get(suite, "testsuite")), depth + 1)
                     \o PropertyEvents(Get(suite, "properties")))

SuitesEvents(suites, depth) ==
    IF suites = <<>> THEN <<>>
    ELSE SuiteEvents(Head(suites), depth) \o SuitesEvents(Tail(suites), depth)

\* the index of the first failure among the events, 0 if there is none
FirstFailed(events) ==
    IF \A i \in DOMAIN events : events[i].enter >= 0 THEN 0
    ELSE CHOOSE i \in DOMAIN events :
             /\ events[i].enter < 0
             /\ \A j \in 1..(i - 1) : events[j].enter >= 0

\* parseJUnitXML was called on a generic tree whose top-level suites are all there
SuitesThere ==
    /\ ParsedTree
    /\ \A i \in DOMAIN TopLevelSuites(call.xmlContent.parsed) :
           TopLevelSuites(call.xmlContent.parsed)[i].kind # "absent"

\* C26: the suites are built in a fixed order (in a suite its tests, then its nested
\* suites depth-first, then its properties, all in document order) and the first failure
\* met in that order is the result of parseJUnitXML, with no data beside it; parseSuite
\* is entered for no suite after that failure.
C26_FirstFailureInOrder ==
    SuitesThere =>
        LET events == SuitesEvents(TopLevelSuites(call.xmlContent.parsed), 0)
            first == FirstFailed(events)
        IN IF first = 0
           THEN result \notin {Err(TooManyProperties), Err(MaxDepthExceeded)}
           ELSE /\ result = Err(events[first].fail)
                /\ DOMAIN result = {"success", "error"}
                /\ depthsEntered = {events[i].enter : i \in 1..(first - 1)}

\* C26 happens: a suite whose nested suites are one too deep and then one with too many
\* properties, and whose own properties are too many: the failure is that of the depth
C26_Witness ==
    /\ SuitesThere
    /\ call.xmlContent.parsed.testsuites.kind = "element"
    /\ Get(call.xmlContent.parsed.testsuites.testsuite, "testsuite")
           = Many(<<DeepSuite, OverLimitSuite>>)
    /\ Get(call.xmlContent.parsed.testsuites.testsuite, "properties") = OverLimit
    /\ Get(call.xmlContent.parsed.testsuites.testsuite, "testcase") = T1
    /\ result = Err(MaxDepthExceeded)
    /\ depthsEntered = 0..(MAX_NESTING_DEPTH + 1)

\* C29: the attempt of parseMultiRootXML on the wrapped text never gives a report,
\* whatever the text of the file, so parseMultiRootXML and ingestFile give a report only
\* when the direct attempt does.
C29_RetryNeverSucceeds ==
    CalledOnFile =>
        /\ ~IsOk(RetryAttempt.r)
        /\ IsOk(parseMultiRootXML(call.fs[call.filePath].content).r) => IsOk(DirectAttempt.r)
        /\ IsOk(result) => IsOk(DirectAttempt.r)

\* C29 happens: the direct attempt misses the wrapper, the retry parses the suites and
\* misses the time of the wrapper it added
C29_Witness ==
    /\ CalledOnFile
    /\ DirectAttempt.r = Err(MissingWrapper)
    /\ RetryAttempt.r = Err(MissingTime)
    /\ RetryAttempt.entered # {}
    /\ IsErr(result)

\* C30: ingestFiles on one path returns what ingestFile returns on that path: the same
\* failure, or the same suites and the same totals.
C30_OnePathSameAsIngestFile ==
    (call.op = "ingestFiles" /\ Len(call.filePaths) = 1) =>
        result = ingestFile(call.fs, call.filePaths[1]).r

\* the data points among those submitted whose type submitMetrics knows
Known(dataPoints) ==
    SelectSeq(dataPoints,
              LAMBDA d : d.metricType \in {"histogram", "counter", "updowncounter"})

\* C28: over the calls of submitMetrics on one submitter, the meter is asked for at most
\* one instrument per metric type and name; each data point of type histogram, counter
\* or updowncounter gives exactly one call, record for a histogram and add for the
\* others, with its value and attributes, on the instrument created for its type and
\* name; data points of other types give no call.
C28_OneInstrumentPerTypeAndName ==
    /\ \A i, j \in DOMAIN created :
           (created[i].type = created[j].type /\ created[i].name = created[j].name) => i = j
    /\ Len(recorded) = Len(Known(submitted))
    /\ \A k \in DOMAIN recorded :
           /\ recorded[k].value = Known(submitted)[k].value
           /\ recorded[k].attributes = Known(submitted)[k].attributes
           /\ recorded[k].method
                  = (IF Known(submitted)[k].metricType = "histogram" THEN "record" ELSE "add")
           /\ recorded[k].instrument \in DOMAIN created
           /\ created[recorded[k].instrument].type = Known(submitted)[k].metricType
           /\ created[recorded[k].instrument].name
                  = InstrumentName(Known(submitted)[k].metricName)

\* C28 happens: three data points of one name, two counters with a histogram between
\* them: two instruments, and the second counter point is added to the first's
C28_Witness ==
    /\ Len(submitted) = 3
    /\ submitted[1].metricType = "counter"
    /\ submitted[2].metricType = "histogram"
    /\ submitted[3].metricType = "counter"
    /\ submitted[1].metricName = submitted[2].metricName
    /\ submitted[1].metricName = submitted[3].metricName
    /\ submitted[1].value # submitted[3].value
    /\ Len(created) = 2
    /\ Len(recorded) = 3
    /\ recorded[1].instrument = recorded[3].instrument
    /\ recorded[1].instrument # recorded[2].instrument

\* the positions of a call among the calls run() made
Positions(effect) == {i \in DOMAIN effects : effects[i] = effect}

\* every call of the first kind was made before every call of the second kind
Before(first, second) ==
    \A i \in Positions(first), j \in Positions(second) : i < j

\* C27: run() calls submitMetrics at most once, and only after ingestDir returned a
\* report of at least one suite; the call is followed by forceFlush, and the message of
\* success comes only after both. When run() is over, a report of one suite or more was
\* submitted once, a report without suites gave a warning and no submission, and a
\* failed ingestion gave an error and no submission.
C27_SubmitOnlyWithSuites ==
    /\ Cardinality(Positions("submitMetrics")) <= 1
    /\ Positions("submitMetrics") # {} =>
           /\ IsOk(ingestResult)
           /\ Len(ingestResult.data.testsuites) >= 1
           /\ submitted = generateMetrics(ingestResult.data, config)
           /\ Positions("ingestDir") # {}
           /\ Before("ingestDir", "submitMetrics")
           /\ Cardinality(Positions("forceFlush")) = 1
           /\ Before("submitMetrics", "forceFlush")
    /\ Positions("core.info: submitted successfully") # {} =>
           /\ Positions("submitMetrics") # {}
           /\ Before("forceFlush", "core.info: submitted successfully")
    /\ Positions("submitMetrics") = {} => submitted = <<>> /\ recorded = <<>>
    /\ (pc = "done" /\ ingestResult # Absent) =>
           IF ~ingestResult.success
           THEN /\ Positions("core.error: Failed to ingest") # {}
                /\ Positions("submitMetrics") = {}
           ELSE IF Len(ingestResult.data.testsuites) = 0
           THEN /\ Positions("core.warning: No test suites found") # {}
                /\ Positions("submitMetrics") = {}
           ELSE Cardinality(Positions("submitMetrics")) = 1

\* C27 happens: a report of two suites or more was submitted, flushed and reported
C27_Witness ==
    /\ pc = "done"
    /\ ingestResult # Absent
    /\ IsOk(ingestResult)
    /\ Len(ingestResult.data.testsuites) >= 2
    /\ Len(recorded) > 4
    /\ Positions("submitMetrics") # {}
    /\ Positions("core.info: submitted successfully") # {}

====
